---- MODULE Spec2Model ----
(***************************************************************************)
(* Document synchronisation engine of the Meilisearch plugin: the index    *)
(* registry, the single-index sync step, the bulk sync step and the batch  *)
(* job, over an abstract search engine (physical index -> stored ids).     *)
(*                                                                         *)
(* Strings that take part in key derivation (index keys, languages) are    *)
(* sequences of one-character strings, so that `${baseKey}_${language}`    *)
(* is a real concatenation.  The empty sequence is the absent (falsy)      *)
(* string.  A document is a record [id, _id]; 0 is the absent (falsy) id.  *)
(***************************************************************************)
EXTENDS Integers, Sequences, FiniteSets, TLC

VARIABLES config, source, filters, indexes, stored, loader, sync, run, prev, job, reg, bulk

envVars == <<config, source, filters>>
engineVars == <<indexes, stored>>
syncVars == <<sync, run, prev>>
vars == <<config, source, filters, indexes, stored, loader, sync, run, prev, job, reg, bulk>>

----------------------------------------------------------------------------
(* Bounds *)

\* number of documents of the source catalog
MaxDocs == 2
\* number of times the caller invokes the single-index sync in a row
MaxRuns == 2
\* number of documents of the catalog the batch job walks
MaxCatalog == 5
\* largest batchSize the caller of the batch job gives
MaxBatch == 2

----------------------------------------------------------------------------
(* Values *)

\* the ids a physical index can hold before a run: those of the catalog and one more
StoredIds == 1 .. (MaxDocs + 1)

NoLanguage == <<>>
Underscore == <<"_">>

KeyPool == {<<"p">>, <<"p", "_", "e">>, <<"q">>, <<"2">>}
LangPool == {<<"e">>, <<"u">>, <<"e", "_", "u">>}

\* every physical index name the model can address
PhysKeys == KeyPool \cup {k \o Underscore \o l : k \in KeyPool, l \in LangPool}

\* an optional number (limit, offset, batchSize): <<>> when not supplied
None == <<>>
Some(n) == <<n>>
IsSome(o) == Len(o) = 1
Val(o) == o[1]

\* values a failing capability can throw: Error objects (with their message)
\* and values that are not Error instances
Thrown == {[isError |-> TRUE, message |-> "boom"],
           [isError |-> TRUE, message |-> ""],
           [isError |-> FALSE, message |-> "not an Error"]}
NoError == [isError |-> FALSE, message |-> "none"]

----------------------------------------------------------------------------
(* Configuration: MeilisearchPluginOptions *)

\* one entry of options.settings, in insertion order
IndexConfigOf(k, en, fe, ty, tr) ==
    [indexKey |-> k, enabled |-> en, fetcher |-> fe, type |-> ty, transformer |-> tr,
     primaryKey |-> <<>>]

NoI18n == [strategy |-> "none", languages |-> <<>>, defaultLanguage |-> NoLanguage]
I18nOf(st, ls, dl) == [strategy |-> st, languages |-> ls, defaultLanguage |-> dl]

\* config_.settings?.[indexKey] : is there an entry for the key
HasIndexConfig(cfg, indexKey) ==
    \E i \in 1 .. Len(cfg.settings) : cfg.settings[i].indexKey = indexKey

IndexConfig(cfg, indexKey) ==
    cfg.settings[CHOOSE i \in 1 .. Len(cfg.settings) : cfg.settings[i].indexKey = indexKey]

\* mutant: the enabled flag is not looked at
IsDisabledOrAbsent_IgnoresEnabled(cfg, indexKey) == ~HasIndexConfig(cfg, indexKey)

\* the guard shared by the sync steps and getDocumentFetcher:
\* !indexConfig || indexConfig.enabled === false
IsDisabledOrAbsent(cfg, indexKey) ==
    \/ ~HasIndexConfig(cfg, indexKey)
    \/ ~IndexConfig(cfg, indexKey).enabled

----------------------------------------------------------------------------
(* MeiliSearchService: key derivation *)

\* mutant: the language is appended under every strategy
getLanguageIndexKey_AnyStrategy(cfg, baseKey, language) ==
    IF language = NoLanguage THEN baseKey ELSE baseKey \o Underscore \o language

getLanguageIndexKey(cfg, baseKey, language) ==
    IF cfg.i18n.strategy # "separate-index" \/ language = NoLanguage
    THEN baseKey
    ELSE baseKey \o Underscore \o language

\* the physical index search() addresses
SearchIndexKey(cfg, indexKey, language) == getLanguageIndexKey(cfg, indexKey, language)

\* mutant: the delete falls back to the default language
DeleteIndexKey_DefaultLanguage(cfg, indexKey, language) ==
    getLanguageIndexKey(cfg, indexKey,
        IF language # NoLanguage THEN language ELSE cfg.i18n.defaultLanguage)

\* the physical index deleteDocuments() addresses
DeleteIndexKey(cfg, indexKey, language) == getLanguageIndexKey(cfg, indexKey, language)

\* the physical index addDocuments() addresses
AddIndexKey(cfg, indexKey, language) ==
    IF cfg.i18n.strategy = "separate-index"
    THEN getLanguageIndexKey(cfg, indexKey,
             IF language # NoLanguage THEN language ELSE cfg.i18n.defaultLanguage)
    ELSE indexKey

----------------------------------------------------------------------------
(* MeiliSearchService: fetching and transforming *)

\* mutant: the type is looked at before the configured fetcher
getDocumentFetcher_TypeFirst(cfg, indexKey) ==
    IF IsDisabledOrAbsent(cfg, indexKey) THEN "none"
    ELSE IF IndexConfig(cfg, indexKey).type = "products" THEN "products"
    ELSE IF IndexConfig(cfg, indexKey).fetcher THEN "custom"
    ELSE "none"

\* getDocumentFetcher: "custom", "products" (built-in) or "none"
getDocumentFetcher(cfg, indexKey) ==
    IF IsDisabledOrAbsent(cfg, indexKey) THEN "none"
    ELSE IF IndexConfig(cfg, indexKey).fetcher THEN "custom"
    ELSE IF IndexConfig(cfg, indexKey).type = "products" THEN "products"
    ELSE "none"

\* no filters passed by the caller
NoFilters == <<>>

\* the filters the built-in products fetcher passes to query.graph:
\* { status: 'published', ...options.filters }
ProductsFilters(callerFilters) == callerFilters @@ [status |-> "published"]

\* the query the built-in products fetcher issues
ProductsQuery(callerFilters, limit, offset) ==
    [entity |-> "product", take |-> limit, skip |-> offset,
     filters |-> ProductsFilters(callerFilters)]

\* no query issued: the fetcher is not the built-in one
NoQuery == [entity |-> "none", take |-> None, skip |-> None, filters |-> NoFilters]

\* the window a fetcher returns: skip offset (default 0), take limit (default all)
Window(src, limit, offset) ==
    LET skip == IF IsSome(offset) THEN Val(offset) ELSE 0
        rest == IF skip >= Len(src) THEN <<>> ELSE SubSeq(src, skip + 1, Len(src))
        take == IF IsSome(limit) THEN Val(limit) ELSE Len(rest)
    IN  IF take <= 0 THEN <<>>
        ELSE IF take >= Len(rest) THEN rest
        ELSE SubSeq(rest, 1, take)

\* getTransformedDocuments runs user code or the product transformer (which can
\* throw) unless the documents are returned as-is
TransformCanThrow(cfg, indexKey, documents) ==
    /\ Len(documents) > 0
    /\ HasIndexConfig(cfg, indexKey)
    /\ \/ IndexConfig(cfg, indexKey).transformer
       \/ IndexConfig(cfg, indexKey).type = "products"

\* mutant: the transformation is rejected only when no document went through
TransformRejects_OnlyIfAll(threw, documents) == threw = 1 .. Len(documents)

\* Promise.all(documents.map(...)) rejects as soon as the transformer of one
\* document (the set `threw` holds their positions) throws
TransformRejects(threw, documents) == threw # {}

\* the container an addDocuments call hands on: none, or the step's
NoContainer == "none"
StepContainer == "step"
\* this.container_, the container the service was constructed with
ServiceContainer == "service"

\* line 348: container || this.container_
TransformerContainer(given) == IF given = NoContainer THEN ServiceContainer ELSE given

\* mutant: the type is looked at before the configured transformer
Transformer_TypeFirst(cfg, indexKey) ==
    IF ~HasIndexConfig(cfg, indexKey) THEN "identity"
    ELSE IF IndexConfig(cfg, indexKey).type = "products" THEN "transformProduct"
    ELSE IF IndexConfig(cfg, indexKey).transformer THEN "custom"
    ELSE "identity"

\* lines 347-375: the transformer getTransformedDocuments applies
Transformer(cfg, indexKey) ==
    IF ~HasIndexConfig(cfg, indexKey) THEN "identity"
    ELSE IF IndexConfig(cfg, indexKey).transformer THEN "custom"
    ELSE IF IndexConfig(cfg, indexKey).type = "products" THEN "transformProduct"
    ELSE "identity"

\* lines 353-364: the default transformer a custom transformer is given
DefaultTransformer(cfg, indexKey) ==
    IF IndexConfig(cfg, indexKey).type = "products" THEN "transformProduct" ELSE "none"

\* one invocation of a transformer and the document it returns
TransformCall(by, doc, container, default, language) ==
    [by |-> by, doc |-> doc, container |-> container, default |-> default,
     language |-> language]
Transformed(by, doc) == [by |-> by, of |-> doc]

\* getTransformedDocuments, lines 337-376: the invocations made, in order, and
\* the documents returned
getTransformedDocuments(cfg, indexKey, documents, language, container) ==
    IF Len(documents) = 0 THEN [invoked |-> <<>>, output |-> <<>>]
    ELSE IF Transformer(cfg, indexKey) = "custom"
    THEN [invoked |-> [i \in 1 .. Len(documents) |->
                         TransformCall("custom", documents[i],
                                       TransformerContainer(container),
                                       DefaultTransformer(cfg, indexKey), language)],
          output |-> [i \in 1 .. Len(documents) |-> Transformed("custom", documents[i])]]
    ELSE IF Transformer(cfg, indexKey) = "transformProduct"
    THEN [invoked |-> [i \in 1 .. Len(documents) |->
                         TransformCall("transformProduct", documents[i], NoContainer,
                                       "none", language)],
          output |-> [i \in 1 .. Len(documents) |->
                         Transformed("transformProduct", documents[i])]]
    ELSE [invoked |-> <<>>, output |-> documents]

\* the arguments of meilisearchService.addDocuments: line 71 of the single
\* step passes no container, line 105 of the bulk step passes its own
NoArguments == <<>>
SyncAddArguments(input, documents) ==
    [indexKey |-> input.indexKey, documents |-> documents, language |-> input.language,
     container |-> NoContainer]
BulkAddArguments(desc, documents) ==
    [indexKey |-> desc.indexKey, documents |-> documents, language |-> desc.language,
     container |-> StepContainer]

----------------------------------------------------------------------------
(* The diff of the sync steps *)

\* mutant: an empty fetch is synced like any other
NothingFetched_Never(documents) == FALSE

\* !documents || documents.length === 0
NothingFetched(documents) == Len(documents) = 0

\* the value of a field a document does not have (undefined)
Absent == -1

\* the values JavaScript treats as false: undefined and the number 0
Falsy(v) == v = Absent \/ v = 0

\* doc.id || doc._id
Identity(doc) == IF ~Falsy(doc.id) THEN doc.id ELSE doc._id

\* documents.map((doc) => doc.id || doc._id).filter(Boolean)
DocumentIds(documents) ==
    {v \in {Identity(documents[i]) : i \in 1 .. Len(documents)} : ~Falsy(v)}

\* mutant: the probe is issued without the id filter
ProbeFilter_Unscoped(documentIds) == StoredIds

\* the ids named by the filter `id IN [...]` built from documentIds
ProbeFilter(documentIds) == documentIds

\* lines 55-58: the options the step passes to meilisearchService.search
ProbeOptions(documentIds, language) ==
    [filter |-> ProbeFilter(documentIds), attributesToRetrieve |-> <<"id">>,
     language |-> language]

\* search(), lines 244-246: the request handed to client_.index(key).search is
\* { filter, ...paginationOptions, ...additionalOptions }; of the options only
\* language, paginationOptions, filter and additionalOptions are read
SearchRequest(options) ==
    LET spread(name) == IF name \in DOMAIN options THEN options[name] ELSE <<>>
    IN  [f \in DOMAIN options \cap {"filter"} |-> options[f]]
            @@ spread("paginationOptions") @@ spread("additionalOptions")

\* no request made
NoRequest == <<>>

\* mutant: every probed id is deleted, fetched or not
DocumentsToDelete_NoDiff(existingDocumentIds, documentIds) == existingDocumentIds

\* existingDocumentIds.filter((id) => !documentIds.includes(id))
DocumentsToDelete(existingDocumentIds, documentIds) == existingDocumentIds \ documentIds

----------------------------------------------------------------------------
(* The search engine behind client_ *)

\* the response of an engine that matches the filter exactly
FilteredHits(st, key, filter) == st[key] \cap filter

\* the responses the engine can give to a search with an id filter.  The engine
\* is an opaque capability whose matching rules are its own: it answers with
\* the stored documents matching the filter, or with stored documents its own
\* rules let through (here: all of them)
SearchResponses(st, key, filter) == {FilteredHits(st, key, filter), st[key]}

\* client_.index(key).addDocuments(documents, {primaryKey: 'id'}): upsert by id
Upsert(st, key, documents) ==
    [st EXCEPT ![key] = @ \cup ({documents[i].id : i \in 1 .. Len(documents)} \ {Absent})]

\* client_.index(key).deleteDocuments(ids)
Remove(st, key, ids) == [st EXCEPT ![key] = @ \ ids]

Call(op, key, ids, n) == [op |-> op, key |-> key, ids |-> ids, n |-> n]

----------------------------------------------------------------------------
(* syncDocumentsStep: one invocation of the single-index sync *)

EmptyResult == [documents |-> <<>>, added |-> 0, deleted |-> 0]

\* mutant: only the documents that carry an identity are counted
AddedCount_WithIdentity(documents) == Cardinality(DocumentIds(documents))

\* added: documents.length
AddedCount(documents) == Len(documents)

SyncInput(k, l, o, lang) ==
    [indexKey |-> k, limit |-> l, offset |-> o, language |-> lang]

\* mutant: the throw of the search leaves the step
AfterProbeThrow_Rethrown == "failed"

\* lines 61-64 (lines 95-98 of the bulk step): the catch block is empty, the
\* step goes on with addDocuments
AfterProbeThrow == "transform"

\* mutant: every identity the engine can hold is taken as already indexed
ExistingBeforeProbe_AllStored == StoredIds

\* line 52 (line 86 of the bulk step): existingDocumentIds starts empty and
\* keeps that value when the search throws, the catch block being empty
ExistingBeforeProbe == {}

\* the step as invoked, before its first statement
NewSync(input) ==
    [pc |-> "start", input |-> input, documents |-> <<>>, documentIds |-> {},
     probed |-> FALSE, probeThrew |-> FALSE, indexMissing |-> FALSE,
     transformFailed |-> {}, addSettled |-> FALSE, addArgs |-> NoArguments,
     transformed |-> [invoked |-> <<>>, output |-> <<>>],
     existingDocumentIds |-> ExistingBeforeProbe,
     filterHonoured |-> TRUE, documentsToDelete |-> {},
     result |-> EmptyResult, error |-> NoError, calls |-> <<>>, query |-> NoQuery,
     upserted |-> <<>>, probeRequest |-> NoRequest]

\* lines 21-39: the enabled check, then fetchDocuments resolves the fetcher
SyncStart ==
    /\ sync.pc = "start"
    /\ IF IsDisabledOrAbsent(config, sync.input.indexKey)
       THEN sync' = [sync EXCEPT !.pc = "done", !.result = EmptyResult]
       ELSE IF getDocumentFetcher(config, sync.input.indexKey) = "none"
       THEN sync' = [sync EXCEPT !.pc = "done", !.result = EmptyResult]
       ELSE sync' = [sync EXCEPT !.pc = "fetch",
                        !.calls = Append(@, Call("fetch", sync.input.indexKey, {}, 0)),
                        !.query = IF getDocumentFetcher(config, sync.input.indexKey) = "products"
                                  THEN ProductsQuery(filters, sync.input.limit, sync.input.offset)
                                  ELSE NoQuery]
    /\ UNCHANGED <<envVars, loader, engineVars, run, prev, job, reg, bulk>>

\* lines 34-59: the fetcher settles; an empty fetch returns, otherwise the
\* identity set is built and the probe is issued when it is not empty
SyncFetched ==
    /\ sync.pc = "fetch"
    /\ \E threw \in BOOLEAN, e \in Thrown :
          IF threw
          THEN sync' = [sync EXCEPT !.pc = "failed", !.error = e]
          ELSE /\ e = CHOOSE x \in Thrown : TRUE
               /\ LET docs == Window(source, sync.input.limit, sync.input.offset)
                      ids == DocumentIds(docs)
                      key == SearchIndexKey(config, sync.input.indexKey, sync.input.language)
                  IN  IF NothingFetched(docs)
                      THEN sync' = [sync EXCEPT !.pc = "done", !.result = EmptyResult]
                      ELSE IF ids # {}
                      THEN sync' = [sync EXCEPT !.pc = "probe", !.documents = docs,
                                       !.documentIds = ids,
                                       !.probeRequest =
                                           SearchRequest(ProbeOptions(ids, sync.input.language)),
                                       !.calls = Append(@, Call("search", key, ProbeFilter(ids), 0))]
                      ELSE sync' = [sync EXCEPT !.pc = "transform", !.documents = docs,
                                       !.documentIds = ids]
    /\ UNCHANGED <<envVars, loader, engineVars, run, prev, job, reg, bulk>>

\* lines 54-71: the probe settles (a throw is swallowed), the deletion set is
\* computed and addDocuments is entered
SyncProbed ==
    /\ sync.pc = "probe"
    /\ LET key == SearchIndexKey(config, sync.input.indexKey, sync.input.language)
           filter == ProbeFilter(sync.documentIds)
       IN  \E threw \in BOOLEAN, hits \in SearchResponses(stored, key, filter) :
              IF threw \/ key \notin indexes
              THEN /\ hits = FilteredHits(stored, key, filter)
                   /\ sync' = [sync EXCEPT !.pc = AfterProbeThrow, !.probed = TRUE,
                                  !.probeThrew = TRUE,
                                  !.indexMissing = (key \notin indexes),
                                  !.existingDocumentIds = ExistingBeforeProbe,
                                  !.documentsToDelete =
                                      DocumentsToDelete(ExistingBeforeProbe, sync.documentIds)]
              ELSE sync' = [sync EXCEPT !.pc = "transform", !.probed = TRUE,
                               !.existingDocumentIds = hits,
                               !.filterHonoured = (hits = FilteredHits(stored, key, filter)),
                               !.documentsToDelete = DocumentsToDelete(hits, sync.documentIds)]
    /\ UNCHANGED <<envVars, loader, engineVars, run, prev, job, reg, bulk>>

\* addDocuments, lines 205-221 of the service: the documents are transformed,
\* then the client call is issued against the index addDocuments derives
SyncTransformed ==
    /\ sync.pc = "transform"
    /\ \E threw \in SUBSET (1 .. Len(sync.documents)), e \in Thrown :
          /\ threw # {} => TransformCanThrow(config, sync.input.indexKey, sync.documents)
          /\ IF TransformRejects(threw, sync.documents)
             THEN sync' = [sync EXCEPT !.pc = "failed", !.error = e, !.transformFailed = threw,
                              !.addArgs = SyncAddArguments(sync.input, sync.documents)]
             ELSE
               /\ e = CHOOSE x \in Thrown : TRUE
               /\ sync' = [sync EXCEPT !.pc = "add",
                              !.transformFailed = threw,
                              !.addArgs = SyncAddArguments(sync.input, sync.documents),
                              !.transformed =
                                  getTransformedDocuments(config, sync.input.indexKey,
                                      sync.documents, sync.input.language,
                                      SyncAddArguments(sync.input, sync.documents).container),
                              !.upserted = sync.documents,
                              !.calls = Append(@, Call("addDocuments",
                                  AddIndexKey(config, sync.input.indexKey, sync.input.language),
                                  {}, Len(sync.documents)))]
    /\ UNCHANGED <<envVars, loader, engineVars, run, prev, job, reg, bulk>>

\* lines 71-82: the upsert settles; then the delete is issued when the
\* deletion set is not empty, otherwise the step returns
SyncAdded ==
    /\ sync.pc = "add"
    /\ LET key == AddIndexKey(config, sync.input.indexKey, sync.input.language)
           dkey == DeleteIndexKey(config, sync.input.indexKey, sync.input.language)
       IN  \E threw \in BOOLEAN, e \in Thrown :
              IF threw
              THEN /\ sync' = [sync EXCEPT !.pc = "failed", !.error = e]
                   /\ UNCHANGED engineVars
              ELSE /\ e = CHOOSE x \in Thrown : TRUE
                   /\ stored' = Upsert(stored, key, sync.documents)
                   /\ indexes' = indexes \cup {key}
                   /\ IF Cardinality(sync.documentsToDelete) > 0
                      THEN sync' = [sync EXCEPT !.pc = "delete", !.addSettled = TRUE,
                                       !.calls = Append(@, Call("deleteDocuments", dkey,
                                                               sync.documentsToDelete, 0))]
                      ELSE sync' = [sync EXCEPT !.pc = "done", !.addSettled = TRUE,
                                       !.result = [documents |-> sync.documents,
                                                   added |-> AddedCount(sync.documents),
                                                   deleted |-> Cardinality(sync.documentsToDelete)]]
    /\ UNCHANGED <<envVars, loader, run, prev, job, reg, bulk>>

\* lines 74-82: the delete settles and the step returns
SyncDeleted ==
    /\ sync.pc = "delete"
    /\ LET dkey == DeleteIndexKey(config, sync.input.indexKey, sync.input.language)
       IN  \E threw \in BOOLEAN, e \in Thrown :
              IF threw
              THEN /\ sync' = [sync EXCEPT !.pc = "failed", !.error = e]
                   /\ UNCHANGED engineVars
              ELSE /\ e = CHOOSE x \in Thrown : TRUE
                   /\ stored' = Remove(stored, dkey, sync.documentsToDelete)
                   /\ UNCHANGED indexes
                   /\ sync' = [sync EXCEPT !.pc = "done",
                                  !.result = [documents |-> sync.documents,
                                              added |-> AddedCount(sync.documents),
                                              deleted |-> Cardinality(sync.documentsToDelete)]]
    /\ UNCHANGED <<envVars, loader, run, prev, job, reg, bulk>>

SyncStep ==
    \/ SyncStart
    \/ SyncFetched
    \/ SyncProbed
    \/ SyncTransformed
    \/ SyncAdded
    \/ SyncDeleted

----------------------------------------------------------------------------
(* A caller that runs the single-index sync workflow again with the same input *)

NoPrev == [pc |-> "none", result |-> EmptyResult, stored |-> [k \in PhysKeys |-> {}]]

\* syncDocumentsWorkflow(container).run({input}) once more, after the previous
\* run has settled
SyncAgain ==
    /\ job.pc = "idle"
    /\ sync.pc \in {"done", "failed"}
    /\ run < MaxRuns
    /\ run' = run + 1
    /\ prev' = [pc |-> sync.pc, result |-> sync.result, stored |-> stored]
    /\ sync' = NewSync(sync.input)
    /\ UNCHANGED <<envVars, loader, engineVars, job, reg, bulk>>

----------------------------------------------------------------------------
(* getIndexesWithFetchersStep and filterIndexesStep *)

Descriptor(k, ty, lang) == [indexKey |-> k, type |-> ty, language |-> lang]

\* lines 44-45: the languages an index is expanded into
TargetLanguages(cfg, language) ==
    IF language # NoLanguage THEN <<language>> ELSE cfg.i18n.languages

\* lines 31-59: the descriptors one settings entry contributes
DescriptorsOfEntry(cfg, entry, language) ==
    IF ~entry.enabled THEN <<>>
    ELSE IF ~entry.fetcher THEN <<>>
    ELSE IF cfg.i18n.strategy = "separate-index" /\ Len(cfg.i18n.languages) > 0
    THEN [i \in 1 .. Len(TargetLanguages(cfg, language)) |->
             Descriptor(entry.indexKey, entry.type, TargetLanguages(cfg, language)[i])]
    ELSE <<Descriptor(entry.indexKey, entry.type, language)>>

\* the value of a decimal digit
DigitValue ==
    ("0" :> 0) @@ ("1" :> 1) @@ ("2" :> 2) @@ ("3" :> 3) @@ ("4" :> 4) @@
    ("5" :> 5) @@ ("6" :> 6) @@ ("7" :> 7) @@ ("8" :> 8) @@ ("9" :> 9)

\* a property key that is a canonical array index ("0", "2", "10", not "02")
IsArrayIndex(key) ==
    /\ Len(key) >= 1
    /\ \A i \in 1 .. Len(key) : key[i] \in DOMAIN DigitValue
    /\ Len(key) = 1 \/ key[1] # "0"

RECURSIVE KeyNumber(_)
KeyNumber(key) ==
    IF Len(key) = 0 THEN 0
    ELSE 10 * KeyNumber(SubSeq(key, 1, Len(key) - 1)) + DigitValue[key[Len(key)]]

\* Object.entries(settings): the entries whose key is an array index come
\* first, in ascending numeric order, then the others in insertion order
ObjectEntries(settings) ==
    SortSeq(SelectSeq(settings, LAMBDA c : IsArrayIndex(c.indexKey)),
            LAMBDA a, b : KeyNumber(a.indexKey) < KeyNumber(b.indexKey))
        \o SelectSeq(settings, LAMBDA c : ~IsArrayIndex(c.indexKey))

RECURSIVE DescriptorsFrom(_, _, _, _)
DescriptorsFrom(cfg, entries, n, language) ==
    IF n = 0 THEN <<>>
    ELSE DescriptorsFrom(cfg, entries, n - 1, language)
             \o DescriptorsOfEntry(cfg, entries[n], language)

\* lines 28-60: the loop over Object.entries(settings)
getIndexesWithFetchers(cfg, language) ==
    DescriptorsFrom(cfg, ObjectEntries(cfg.settings), Len(cfg.settings), language)

\* mutant: every descriptor is kept
KeepDescriptor_All(d, keys) == TRUE

\* line 104: indexKeys.includes(index.indexKey)
KeepDescriptor(d, keys) == d.indexKey \in keys

\* indexKeys ? indexes.filter((index) => indexKeys.includes(index.indexKey)) : indexes
filterIndexes(idx, indexKeys) ==
    IF IsSome(indexKeys)
    THEN SelectSeq(idx, LAMBDA d : KeepDescriptor(d, Val(indexKeys)))
    ELSE idx

\* the physical index a descriptor stands for
PhysicalKey(cfg, d) == getLanguageIndexKey(cfg, d.indexKey, d.language)

----------------------------------------------------------------------------
(* bulkSyncDocumentsStep *)

\* error instanceof Error ? error.message : 'Unknown error'
ErrorMessage(e) == IF e.isError THEN e.message ELSE "Unknown error"

\* the task has not returned an entry yet
PendingEntry(d) ==
    [indexKey |-> d.indexKey, language |-> d.language, success |-> FALSE,
     documents |-> <<>>, added |-> 0, deleted |-> 0, error |-> None]

NewTask(d) ==
    [desc |-> d, pc |-> "start", documents |-> <<>>, documentIds |-> {},
     probed |-> FALSE, probeThrew |-> FALSE, indexMissing |-> FALSE,
     transformFailed |-> {}, addSettled |-> FALSE, addArgs |-> NoArguments,
     transformed |-> [invoked |-> <<>>, output |-> <<>>],
     existingDocumentIds |-> ExistingBeforeProbe,
     filterHonoured |-> TRUE, documentsToDelete |-> {}, upserted |-> 0, removed |-> 0,
     failedAt |-> "none", entry |-> PendingEntry(d), calls |-> <<>>]

\* the entry returned by the try block (lines 52-61, 72-81, 117-125)
SuccessEntry(t, docs, deleted) ==
    [indexKey |-> t.desc.indexKey, language |-> t.desc.language, success |-> TRUE,
     documents |-> docs, added |-> AddedCount(docs), deleted |-> deleted, error |-> None]

\* the entry returned by the catch block (lines 126-141)
FailureEntry(t, e) ==
    [indexKey |-> t.desc.indexKey, language |-> t.desc.language, success |-> FALSE,
     documents |-> <<>>, added |-> 0, deleted |-> 0, error |-> Some(ErrorMessage(e))]

Settle(t, entry) == [t EXCEPT !.pc = "settled", !.entry = entry]

\* the catch block is entered from the statement that threw
Caught(t, e) == [Settle(t, FailureEntry(t, e)) EXCEPT !.failedAt = t.pc]

Task(i) == bulk.tasks[i]

\* lines 44-45: Promise.all(indexes.map(async ...)) creates one task per
\* descriptor, in input order
BulkStart ==
    /\ bulk.pc = "start"
    /\ bulk' = [bulk EXCEPT !.pc = "running",
                   !.tasks = [i \in 1 .. Len(bulk.indexes) |-> NewTask(bulk.indexes[i])]]
    /\ UNCHANGED <<envVars, loader, engineVars, syncVars, job, reg>>

\* lines 49-69: the enabled check, then fetchDocuments resolves the fetcher
BulkTaskStart(i) ==
    /\ bulk.pc = "running"
    /\ Task(i).pc = "start"
    /\ LET t == Task(i)
       IN  IF IsDisabledOrAbsent(config, t.desc.indexKey)
           THEN bulk' = [bulk EXCEPT !.tasks[i] = Settle(t, SuccessEntry(t, <<>>, 0))]
           ELSE IF getDocumentFetcher(config, t.desc.indexKey) = "none"
           THEN bulk' = [bulk EXCEPT !.tasks[i] = Settle(t, SuccessEntry(t, <<>>, 0))]
           ELSE bulk' = [bulk EXCEPT !.tasks[i] =
                            [t EXCEPT !.pc = "fetch",
                                !.calls = Append(@, Call("fetch", t.desc.indexKey, {}, 0))]]
    /\ UNCHANGED <<envVars, loader, engineVars, syncVars, job, reg>>

\* lines 64-93: the fetcher settles
BulkFetched(i) ==
    /\ bulk.pc = "running"
    /\ Task(i).pc = "fetch"
    /\ LET t == Task(i)
       IN  \E threw \in BOOLEAN, e \in Thrown :
              IF threw
              THEN bulk' = [bulk EXCEPT !.tasks[i] = Caught(t, e)]
              ELSE /\ e = CHOOSE x \in Thrown : TRUE
                   /\ LET docs == Window(source, bulk.limit, bulk.offset)
                          ids == DocumentIds(docs)
                          key == SearchIndexKey(config, t.desc.indexKey, t.desc.language)
                      IN  IF NothingFetched(docs)
                          THEN bulk' = [bulk EXCEPT !.tasks[i] = Settle(t, SuccessEntry(t, <<>>, 0))]
                          ELSE IF ids # {}
                          THEN bulk' = [bulk EXCEPT !.tasks[i] =
                                           [t EXCEPT !.pc = "probe", !.documents = docs,
                                               !.documentIds = ids,
                                               !.calls = Append(@, Call("search", key, ProbeFilter(ids), 0))]]
                          ELSE bulk' = [bulk EXCEPT !.tasks[i] =
                                           [t EXCEPT !.pc = "transform", !.documents = docs,
                                               !.documentIds = ids]]
    /\ UNCHANGED <<envVars, loader, engineVars, syncVars, job, reg>>

\* lines 87-105: the probe settles (a throw is swallowed)
BulkProbed(i) ==
    /\ bulk.pc = "running"
    /\ Task(i).pc = "probe"
    /\ LET t == Task(i)
           key == SearchIndexKey(config, t.desc.indexKey, t.desc.language)
           filter == ProbeFilter(t.documentIds)
       IN  \E threw \in BOOLEAN, hits \in SearchResponses(stored, key, filter) :
              IF threw \/ key \notin indexes
              THEN /\ hits = FilteredHits(stored, key, filter)
                   /\ bulk' = [bulk EXCEPT !.tasks[i] =
                                  [t EXCEPT !.pc = AfterProbeThrow, !.probed = TRUE,
                                      !.probeThrew = TRUE,
                                      !.indexMissing = (key \notin indexes),
                                      !.existingDocumentIds = ExistingBeforeProbe,
                                      !.documentsToDelete =
                                          DocumentsToDelete(ExistingBeforeProbe, t.documentIds)]]
              ELSE bulk' = [bulk EXCEPT !.tasks[i] =
                               [t EXCEPT !.pc = "transform", !.probed = TRUE,
                                   !.existingDocumentIds = hits,
                                   !.filterHonoured = (hits = FilteredHits(stored, key, filter)),
                                   !.documentsToDelete = DocumentsToDelete(hits, t.documentIds)]]
    /\ UNCHANGED <<envVars, loader, engineVars, syncVars, job, reg>>

\* line 105 and addDocuments, lines 205-221 of the service: the documents are
\* transformed, then the client call is issued
BulkTransformed(i) ==
    /\ bulk.pc = "running"
    /\ Task(i).pc = "transform"
    /\ LET t == Task(i)
       IN  \E threw \in SUBSET (1 .. Len(t.documents)), e \in Thrown :
              /\ threw # {} => TransformCanThrow(config, t.desc.indexKey, t.documents)
              /\ IF TransformRejects(threw, t.documents)
                 THEN bulk' = [bulk EXCEPT !.tasks[i] =
                                  Caught([t EXCEPT !.transformFailed = threw,
                                             !.addArgs = BulkAddArguments(t.desc, t.documents)], e)]
                 ELSE
                   /\ e = CHOOSE x \in Thrown : TRUE
                   /\ bulk' = [bulk EXCEPT !.tasks[i] =
                                  [t EXCEPT !.pc = "add", !.transformFailed = threw,
                                      !.addArgs = BulkAddArguments(t.desc, t.documents),
                                      !.transformed =
                                          getTransformedDocuments(config, t.desc.indexKey,
                                              t.documents, t.desc.language,
                                              BulkAddArguments(t.desc, t.documents).container),
                                      !.calls = Append(@, Call("addDocuments",
                                          AddIndexKey(config, t.desc.indexKey, t.desc.language),
                                          {}, Len(t.documents)))]]
    /\ UNCHANGED <<envVars, loader, engineVars, syncVars, job, reg>>

\* lines 105-125: the upsert settles; then the delete is issued when the
\* deletion set is not empty, otherwise the entry is returned
BulkAdded(i) ==
    /\ bulk.pc = "running"
    /\ Task(i).pc = "add"
    /\ LET t == Task(i)
           key == AddIndexKey(config, t.desc.indexKey, t.desc.language)
           dkey == DeleteIndexKey(config, t.desc.indexKey, t.desc.language)
       IN  \E threw \in BOOLEAN, e \in Thrown :
              IF threw
              THEN /\ bulk' = [bulk EXCEPT !.tasks[i] = Caught(t, e)]
                   /\ UNCHANGED engineVars
              ELSE /\ e = CHOOSE x \in Thrown : TRUE
                   /\ stored' = Upsert(stored, key, t.documents)
                   /\ indexes' = indexes \cup {key}
                   /\ IF Cardinality(t.documentsToDelete) > 0
                      THEN bulk' = [bulk EXCEPT !.tasks[i] =
                                       [t EXCEPT !.pc = "delete", !.upserted = Len(t.documents),
                                           !.addSettled = TRUE,
                                           !.calls = Append(@, Call("deleteDocuments", dkey,
                                                                   t.documentsToDelete, 0))]]
                      ELSE bulk' = [bulk EXCEPT !.tasks[i] =
                                       Settle([t EXCEPT !.upserted = Len(t.documents),
                                                     !.addSettled = TRUE],
                                              SuccessEntry(t, t.documents,
                                                           Cardinality(t.documentsToDelete)))]
    /\ UNCHANGED <<envVars, loader, syncVars, job, reg>>

\* lines 108-125: the delete settles and the entry is returned
BulkDeleted(i) ==
    /\ bulk.pc = "running"
    /\ Task(i).pc = "delete"
    /\ LET t == Task(i)
           dkey == DeleteIndexKey(config, t.desc.indexKey, t.desc.language)
       IN  \E threw \in BOOLEAN, e \in Thrown :
              IF threw
              THEN /\ bulk' = [bulk EXCEPT !.tasks[i] = Caught(t, e)]
                   /\ UNCHANGED engineVars
              ELSE /\ e = CHOOSE x \in Thrown : TRUE
                   /\ stored' = Remove(stored, dkey, t.documentsToDelete)
                   /\ UNCHANGED indexes
                   /\ bulk' = [bulk EXCEPT !.tasks[i] =
                                  Settle([t EXCEPT !.removed = Cardinality(t.documentsToDelete)],
                                         SuccessEntry(t, t.documents,
                                                      Cardinality(t.documentsToDelete)))]
    /\ UNCHANGED <<envVars, loader, syncVars, job, reg>>

\* lines 146-161: the forEach over the settled entries
RECURSIVE Sum(_)
Sum(ns) == IF Len(ns) = 0 THEN 0 ELSE ns[1] + Sum(Tail(ns))

\* mutant: every entry is counted as successful
CountSuccess_All(r) == 1

CountSuccess(r) == IF r.success THEN 1 ELSE 0
CountFailure(r) == IF r.success THEN 0 ELSE 1
CountDocuments(r) == Len(r.documents)
CountAdded(r) == r.added
CountDeleted(r) == r.deleted

\* lines 171-180: the step's response
BulkResponse(idx, results) ==
    [results |-> results,
     totalProcessed |-> Len(idx),
     totalSuccessful |-> Sum([i \in 1 .. Len(results) |-> CountSuccess(results[i])]),
     totalFailed |-> Sum([i \in 1 .. Len(results) |-> CountFailure(results[i])]),
     totalDocuments |-> Sum([i \in 1 .. Len(results) |-> CountDocuments(results[i])]),
     totalAdded |-> Sum([i \in 1 .. Len(results) |-> CountAdded(results[i])]),
     totalDeleted |-> Sum([i \in 1 .. Len(results) |-> CountDeleted(results[i])])]

\* mutant: the totals are computed as soon as one task has settled
AllSettled_Any(tasks) == \E i \in 1 .. Len(tasks) : tasks[i].pc = "settled"

\* line 44: await Promise.all(...) resumes once every task has settled
AllSettled(tasks) == \A i \in 1 .. Len(tasks) : tasks[i].pc = "settled"

\* lines 145-180: Promise.all resolves once every task has settled
BulkTotals ==
    /\ bulk.pc = "running"
    /\ AllSettled(bulk.tasks)
    /\ bulk' = [bulk EXCEPT !.pc = "done",
                   !.result = BulkResponse(bulk.indexes,
                                  [i \in 1 .. Len(bulk.tasks) |-> Task(i).entry])]
    /\ UNCHANGED <<envVars, loader, engineVars, syncVars, job, reg>>

TaskIds == 1 .. Len(bulk.tasks)

BulkStep ==
    \/ BulkStart
    \/ \E i \in TaskIds : BulkTaskStart(i)
    \/ \E i \in TaskIds : BulkFetched(i)
    \/ \E i \in TaskIds : BulkProbed(i)
    \/ \E i \in TaskIds : BulkTransformed(i)
    \/ \E i \in TaskIds : BulkAdded(i)
    \/ \E i \in TaskIds : BulkDeleted(i)
    \/ BulkTotals

----------------------------------------------------------------------------
(* bulkSyncDocumentsWorkflow: registry, filter, bulk step *)

\* line 223: getIndexesWithFetchersStep({ language })
WorkflowGetIndexes ==
    /\ reg.pc = "start"
    /\ reg' = [reg EXCEPT !.pc = "filter",
                  !.indexes = getIndexesWithFetchers(config, reg.language)]
    /\ UNCHANGED <<envVars, loader, engineVars, syncVars, job, bulk>>

\* lines 226-237: filterIndexesStep, then bulkSyncDocumentsStep is handed the
\* filtered descriptors
WorkflowFilter ==
    /\ reg.pc = "filter"
    /\ reg' = [reg EXCEPT !.pc = "done",
                  !.filteredIndexes = filterIndexes(reg.indexes, reg.indexKeys)]
    /\ bulk' = [bulk EXCEPT !.pc = "start",
                   !.indexes = filterIndexes(reg.indexes, reg.indexKeys)]
    /\ UNCHANGED <<envVars, loader, engineVars, syncVars, job>>

----------------------------------------------------------------------------
(* meilisearchIndexSyncJob: the batch job *)

\* line 21: batchSize = 100 when the caller gives none
DefaultBatchSize == 100

JobData(present, k, l, o, b) ==
    [present |-> present, indexKey |-> k, limit |-> l, offset |-> o, batchSize |-> b]

NewJob(data) ==
    [pc |-> "start", data |-> data, batchSize |-> 0, currentOffset |-> 0,
     totalAdded |-> 0, totalDeleted |-> 0, hasMore |-> FALSE, windows |-> <<>>,
     fetched |-> <<>>, reported |-> <<>>]

\* the iterations the model keeps a record of: more than a walk over the
\* largest catalog takes
MaxIterations == MaxCatalog + 2

\* the record of the first MaxIterations iterations
Record(log, x) == IF Len(log) < MaxIterations THEN Append(log, x) ELSE log

\* mutant: only the absence of the data object is looked at
MissingInput_DataOnly(data) == ~data.present

\* line 16: !data || !data.indexKey
MissingInput(data) == ~data.present \/ data.indexKey = <<>>

\* line 21: const { ..., batchSize = 100 } = data
BatchSizeOf(data) == IF IsSome(data.batchSize) THEN Val(data.batchSize) ELSE DefaultBatchSize

\* line 26: if (limit)
LimitGiven(data) == IsSome(data.limit) /\ Val(data.limit) # 0

\* line 43: offset || 0
InitialOffset(data) ==
    IF IsSome(data.offset) /\ Val(data.offset) # 0 THEN Val(data.offset) ELSE 0

\* lines 49-56: the input of one iteration's syncDocumentsWorkflow run
BatchWindow(batchSize, currentOffset) ==
    SyncInput(<<>>, Some(batchSize), Some(currentOffset), NoLanguage)

\* mutant: a full page ends the loop as well
ReachedEnd_Inclusive(documents, batchSize) == Len(documents) <= batchSize

\* line 62: the fetch returned fewer documents than batchSize
ReachedEnd(documents, batchSize) == Len(documents) < batchSize

\* mutant: a failed run resolves like a successful one
RunRejects_Never(s) == FALSE

\* lines 27 and 49: `await syncDocumentsWorkflow(container).run(...)` rejects
\* when the step threw; the job has no try/catch around it
RunRejects(s) == s.pc = "failed"

\* lines 15-56: the data check, the explicit-limit branch, or the first
\* iteration of the loop
JobStart ==
    /\ job.pc = "start"
    /\ IF MissingInput(job.data)
       THEN /\ job' = [job EXCEPT !.pc = "skipped"]
            /\ UNCHANGED sync
       ELSE IF LimitGiven(job.data)
       THEN /\ job' = [job EXCEPT !.pc = "single", !.batchSize = BatchSizeOf(job.data),
                          !.windows = <<[limit |-> job.data.limit, offset |-> job.data.offset]>>]
            /\ sync' = NewSync(SyncInput(job.data.indexKey, job.data.limit,
                                         job.data.offset, NoLanguage))
       ELSE /\ job' = [job EXCEPT !.pc = "loop", !.batchSize = BatchSizeOf(job.data),
                          !.currentOffset = InitialOffset(job.data), !.hasMore = TRUE,
                          !.windows = <<[limit |-> Some(BatchSizeOf(job.data)),
                                         offset |-> Some(InitialOffset(job.data))]>>]
            /\ sync' = NewSync([BatchWindow(BatchSizeOf(job.data), InitialOffset(job.data))
                                    EXCEPT !.indexKey = job.data.indexKey])
    /\ UNCHANGED <<envVars, loader, engineVars, run, prev, reg, bulk>>

\* lines 27-40: the single fixed-window run settles
JobSingleSettled ==
    /\ job.pc = "single"
    /\ sync.pc \in {"done", "failed"}
    /\ IF RunRejects(sync)
       THEN job' = [job EXCEPT !.pc = "failed"]
       ELSE job' = [job EXCEPT !.pc = "returned",
                       !.fetched = Append(@, Len(sync.result.documents))]
    /\ UNCHANGED <<envVars, loader, engineVars, syncVars, reg, bulk>>

\* lines 48-67: one iteration's run settles; the totals are accumulated and the
\* loop ends or runs the next window
JobIterationSettled ==
    /\ job.pc = "loop"
    /\ sync.pc \in {"done", "failed"}
    /\ IF RunRejects(sync)
       THEN /\ job' = [job EXCEPT !.pc = "failed"]
            /\ UNCHANGED sync
       ELSE IF ReachedEnd(sync.result.documents, job.batchSize)
       THEN /\ job' = [job EXCEPT !.pc = "returned", !.hasMore = FALSE,
                          !.totalAdded = @ + sync.result.added,
                          !.totalDeleted = @ + sync.result.deleted,
                          !.fetched = Record(@, Len(sync.result.documents)),
                          !.reported = Record(@, [added |-> sync.result.added,
                                                  deleted |-> sync.result.deleted])]
            /\ UNCHANGED sync
       ELSE /\ job' = [job EXCEPT !.currentOffset = @ + job.batchSize,
                          !.totalAdded = @ + sync.result.added,
                          !.totalDeleted = @ + sync.result.deleted,
                          !.fetched = Record(@, Len(sync.result.documents)),
                          !.reported = Record(@, [added |-> sync.result.added,
                                                  deleted |-> sync.result.deleted]),
                          !.windows = Record(@, [limit |-> Some(job.batchSize),
                                                 offset |-> Some(job.currentOffset + job.batchSize)])]
            /\ sync' = NewSync([BatchWindow(job.batchSize, job.currentOffset + job.batchSize)
                                    EXCEPT !.indexKey = job.data.indexKey])
    /\ UNCHANGED <<envVars, loader, engineVars, run, prev, reg, bulk>>

JobStep == JobStart \/ JobSingleSettled \/ JobIterationSettled

----------------------------------------------------------------------------
(* The module loader: index settings are applied at startup *)

\* updateSettings, lines 249-270: the physical indexes whose settings are
\* applied for one configured index, in call order
UpdateSettingsKeys(cfg, indexKey) ==
    IF HasIndexConfig(cfg, indexKey) /\ ~IndexConfig(cfg, indexKey).enabled THEN <<>>
    ELSE IF cfg.i18n.strategy = "separate-index"
    THEN [j \in 1 .. Len(cfg.i18n.languages) |->
             getLanguageIndexKey(cfg, indexKey, cfg.i18n.languages[j])]
    ELSE <<indexKey>>

\* upsertIndex, lines 272-286: the index is created when the key is not that
\* of a disabled configured index and getIndex reports it missing
UpsertCreates(cfg, key, existing) ==
    /\ ~(HasIndexConfig(cfg, key) /\ ~IndexConfig(cfg, key).enabled)
    /\ key \notin existing

\* line 282: settings.primaryKey ?? 'id'
PrimaryKeyOf(settings) ==
    IF settings.primaryKey # <<>> THEN settings.primaryKey[1] ELSE "id"

\* a call the service makes on the client while applying the settings of the
\* configured index `for`
ClientCall(op, key, for, outcome, primaryKey) ==
    [op |-> op, key |-> key, for |-> for, outcome |-> outcome, primaryKey |-> primaryKey]

\* lines 277-285: what client_.getIndex reports; `unreachable` holds the keys
\* for which it fails otherwise than by index_not_found
GetIndexOutcome(key, existing, unreachable) ==
    IF key \in unreachable THEN "error"
    ELSE IF key \in existing THEN "found" ELSE "index_not_found"

\* upsertIndex, lines 272-286, followed by the updateSettings call of lines 263
\* and 268: the client calls made for one physical index, in order
ApplyCalls(cfg, settings, key, existing, unreachable) ==
    (IF HasIndexConfig(cfg, key) /\ ~IndexConfig(cfg, key).enabled
     THEN <<>>
     ELSE <<ClientCall("getIndex", key, settings.indexKey,
                       GetIndexOutcome(key, existing, unreachable), "")>>
          \o (IF UpsertCreates(cfg, key, existing) /\ key \notin unreachable
              THEN <<ClientCall("createIndex", key, settings.indexKey, "ok",
                                PrimaryKeyOf(settings))>>
              ELSE <<>>))
    \o <<ClientCall("updateSettings", key, settings.indexKey, "ok", "")>>

\* lines 257-269: the calls for every physical index of the configured index
RECURSIVE SettingsCalls(_, _, _, _, _)
SettingsCalls(cfg, settings, keys, existing, unreachable) ==
    IF keys = <<>> THEN <<>>
    ELSE ApplyCalls(cfg, settings, Head(keys), existing, unreachable)
         \o SettingsCalls(cfg, settings, Tail(keys), existing, unreachable)

IdleLoader == [pc |-> "idle", applied |-> {}, calls |-> <<>>, log |-> <<>>, absent |-> {}]

\* loader lines 19-23: updateSettings(indexName, value) for entry i of the
\* settings; the entries are applied concurrently, in any order. The engine
\* creates an index that does not exist when its settings are updated.
LoaderApply(i) ==
    /\ loader.pc = "run"
    /\ i \in (1 .. Len(config.settings)) \ loader.applied
    /\ LET keys == UpdateSettingsKeys(config, config.settings[i].indexKey)
           keySet == {keys[j] : j \in 1 .. Len(keys)}
       IN  \E unreachable \in SUBSET keySet :
              /\ indexes' = indexes \cup keySet
              /\ loader' = [loader EXCEPT
                     !.applied = @ \cup {i},
                     !.calls = @ \o [j \in 1 .. Len(keys) |->
                                        Call("updateSettings", keys[j], {}, 0)],
                     !.log = @ \o SettingsCalls(config, config.settings[i], keys,
                                                indexes, unreachable),
                     !.absent = @ \cup (keySet \ indexes),
                     !.pc = IF loader.applied \cup {i} = 1 .. Len(config.settings)
                            THEN "done" ELSE "run"]
    /\ UNCHANGED <<envVars, stored, syncVars, job, reg, bulk>>

LoaderIds == 1 .. Len(config.settings)

LoaderStep == \E i \in LoaderIds : LoaderApply(i)

----------------------------------------------------------------------------
(* Initial states *)

\* the source catalog: n documents, all carrying their identity the same way
Doc(i, style) ==
    CASE style = "id" -> [id |-> i, _id |-> Absent]
      [] style = "_id" -> [id |-> Absent, _id |-> i]
      [] style = "both" -> [id |-> i, _id |-> i + 1]
      [] style = "zero" -> [id |-> i - 1, _id |-> i + 1]
      [] OTHER -> [id |-> Absent, _id |-> Absent]

Sources ==
    {[i \in 1 .. n |-> Doc(i, style)] : n \in 0 .. MaxDocs, style \in {"id", "_id", "both", "zero", "none"}}

\* the engine before the run: every physical index exists and holds the same
\* documents (one of `contents`), or no physical index exists yet
EngineInit(contents) ==
    \E ex \in BOOLEAN, s0 \in contents \cup {{}} :
        /\ ex \/ s0 = {}
        /\ indexes = IF ex THEN PhysKeys ELSE {}
        /\ stored = [k \in PhysKeys |-> s0]

\* one configured index "p": a custom fetcher (on a custom or a products
\* index), the built-in products fetcher, no fetcher at all, or disabled; under
\* each i18n setting
SyncConfigs ==
    {[settings |-> <<c>>, i18n |-> i]
        : c \in {IndexConfigOf(<<"p">>, TRUE, TRUE, "custom", FALSE),
                 IndexConfigOf(<<"p">>, TRUE, TRUE, "products", FALSE),
                 IndexConfigOf(<<"p">>, TRUE, TRUE, "products", TRUE),
                 IndexConfigOf(<<"p">>, TRUE, FALSE, "products", FALSE),
                 IndexConfigOf(<<"p">>, TRUE, FALSE, "custom", FALSE),
                 IndexConfigOf(<<"p">>, FALSE, TRUE, "custom", FALSE)},
          i \in {NoI18n,
                 I18nOf("field-suffix", <<<<"e">>, <<"u">>>>, <<"e">>),
                 I18nOf("separate-index", <<<<"e">>, <<"u">>>>, <<"e">>)}}

SyncInputs ==
    {SyncInput(k, l, o, lang)
        : k \in {<<"p">>, <<"q">>}, l \in {None, Some(1)}, o \in {None, Some(1)},
          lang \in {NoLanguage, <<"u">>}}

IdleJob == [NewJob(JobData(FALSE, <<>>, None, None, None)) EXCEPT !.pc = "idle"]
IdleReg == [pc |-> "idle", language |-> NoLanguage, indexKeys |-> None,
            indexes |-> <<>>, filteredIndexes |-> <<>>]
IdleBulk == [pc |-> "idle", indexes |-> <<>>, limit |-> None, offset |-> None,
             tasks |-> <<>>, result |-> [totalProcessed |-> 0]]
IdleSync == [NewSync(SyncInput(<<>>, None, None, NoLanguage)) EXCEPT !.pc = "idle"]

\* filters a caller passes: none, one on another field, one on status
FilterPool == {NoFilters, [handle |-> "h"], [status |-> "draft"]}

InitSync ==
    /\ config \in SyncConfigs
    /\ source \in Sources
    /\ filters \in IF getDocumentFetcher(config, <<"p">>) = "products"
                   THEN FilterPool ELSE {NoFilters}
    /\ loader = IdleLoader
    /\ EngineInit(SUBSET StoredIds)
    /\ \E input \in SyncInputs : sync = NewSync(input)
    /\ run = 1
    /\ prev = [NoPrev EXCEPT !.stored = stored]
    /\ job = IdleJob
    /\ reg = IdleReg
    /\ bulk = IdleBulk

NextSync == SyncStep \/ SyncAgain

SpecSync == InitSync /\ [][NextSync]_vars

\* index "p" next to a disabled index, or next to an index whose key extends
\* it, under i18n settings
BulkConfigs ==
    {[settings |-> <<IndexConfigOf(<<"p">>, TRUE, TRUE, "custom", FALSE),
                     IndexConfigOf(<<"q">>, FALSE, TRUE, "custom", FALSE)>>, i18n |-> i]
        : i \in {NoI18n,
                 I18nOf("field-suffix", <<<<"e">>, <<"u">>>>, <<"e">>),
                 I18nOf("separate-index", <<>>, <<"e">>),
                 I18nOf("separate-index", <<<<"e">>, <<"u">>>>, <<"e">>)}}
    \cup
    {[settings |-> <<IndexConfigOf(<<"p">>, TRUE, TRUE, "custom", FALSE),
                     IndexConfigOf(<<"p", "_", "e">>, TRUE, TRUE, "custom", TRUE)>>, i18n |-> i]
        : i \in {NoI18n, I18nOf("separate-index", <<>>, <<"e">>)}}

BulkSources == {[i \in 1 .. n |-> Doc(i, "id")] : n \in 0 .. MaxDocs}

\* the workflow is run: the descriptors come from the registry
InitWorkflow ==
    /\ config \in BulkConfigs
    /\ source \in BulkSources
    /\ filters = NoFilters
    /\ loader = IdleLoader
    /\ EngineInit({{1, MaxDocs + 1}})
    /\ sync = IdleSync
    /\ run = 1
    /\ prev = NoPrev
    /\ job = IdleJob
    /\ \E lang \in {NoLanguage, <<"u">>}, keys \in {None, Some({<<"p">>}), Some({<<"p">>, <<"q">>})} :
          reg = [IdleReg EXCEPT !.pc = "start", !.language = lang, !.indexKeys = keys]
    /\ \E l \in {None, Some(1)} : bulk = [IdleBulk EXCEPT !.limit = l]

\* two enabled indexes with fetchers in two languages each
TwoByTwoConfig ==
    [settings |-> <<IndexConfigOf(<<"p">>, TRUE, TRUE, "custom", FALSE),
                    IndexConfigOf(<<"q">>, TRUE, TRUE, "custom", FALSE)>>,
     i18n |-> I18nOf("separate-index", <<<<"e">>, <<"u">>>>, <<"e">>)]

\* the workflow is run for some of the configured indexes only: for none, for
\* one of them, or for one of them and a key that is not configured
InitWorkflowSome ==
    /\ config = TwoByTwoConfig
    /\ source \in BulkSources
    /\ filters = NoFilters
    /\ loader = IdleLoader
    /\ EngineInit({{1, MaxDocs + 1}})
    /\ sync = IdleSync
    /\ run = 1
    /\ prev = NoPrev
    /\ job = IdleJob
    /\ \E keys \in {Some({}), Some({<<"q">>}), Some({<<"p">>, <<"2">>})} :
          reg = [IdleReg EXCEPT !.pc = "start", !.indexKeys = keys]
    /\ bulk = IdleBulk

\* the step is run on descriptors given by its caller
DirectDescriptors ==
    {<<Descriptor(<<"q">>, "custom", NoLanguage)>>,
     <<Descriptor(<<"p">>, "custom", NoLanguage), Descriptor(<<"q">>, "custom", <<"u">>)>>,
     <<Descriptor(<<"p">>, "custom", NoLanguage), Descriptor(<<"q">>, "custom", NoLanguage),
       Descriptor(<<"p">>, "custom", <<"u">>)>>}

InitBulkDirect ==
    /\ config \in BulkConfigs
    /\ source \in BulkSources
    /\ filters = NoFilters
    /\ loader = IdleLoader
    /\ EngineInit({{1, MaxDocs + 1}})
    /\ sync = IdleSync
    /\ run = 1
    /\ prev = NoPrev
    /\ job = IdleJob
    /\ reg = IdleReg
    /\ \E l \in {None, Some(1)}, ds \in DirectDescriptors :
          bulk = [IdleBulk EXCEPT !.pc = "start", !.limit = l, !.indexes = ds]

InitBulk == InitWorkflow \/ InitWorkflowSome \/ InitBulkDirect

NextBulk == WorkflowGetIndexes \/ WorkflowFilter \/ BulkStep

SpecBulk == InitBulk /\ [][NextBulk]_vars

\* the workflow over two indexes and two languages whose names contain "_"
SuffixConfig ==
    [settings |-> <<IndexConfigOf(<<"p">>, TRUE, TRUE, "custom", FALSE),
                    IndexConfigOf(<<"p", "_", "e">>, TRUE, TRUE, "custom", FALSE)>>,
     i18n |-> I18nOf("separate-index", <<<<"u">>, <<"e", "_", "u">>>>, <<"u">>)]

InitBulkI18n ==
    /\ config = SuffixConfig
    /\ source = <<Doc(1, "id")>>
    /\ filters = NoFilters
    /\ loader = IdleLoader
    /\ indexes = PhysKeys
    /\ stored = [k \in PhysKeys |-> {1, 2}]
    /\ sync = IdleSync
    /\ run = 1
    /\ prev = NoPrev
    /\ job = IdleJob
    /\ reg = [IdleReg EXCEPT !.pc = "start"]
    /\ bulk = IdleBulk

SpecBulkI18n == InitBulkI18n /\ [][NextBulk]_vars

BatchSources == {[i \in 1 .. n |-> Doc(i, "id")] : n \in 0 .. MaxCatalog}

JobInputs ==
    {JobData(FALSE, <<>>, None, None, None)}
    \cup {JobData(TRUE, k, l, o, b)
            : k \in {<<>>, <<"p">>}, l \in {None, Some(0), Some(1)}, o \in {None, Some(1)},
              b \in {None} \cup {Some(n) : n \in 0 .. MaxBatch}}

InitBatch ==
    /\ config \in SyncConfigs
    /\ source \in BatchSources
    /\ filters = NoFilters
    /\ loader = IdleLoader
    /\ EngineInit({{1, MaxCatalog + 1}})
    /\ sync = IdleSync
    /\ run = 1
    /\ prev = NoPrev
    /\ \E data \in JobInputs : job = NewJob(data)
    /\ reg = IdleReg
    /\ bulk = IdleBulk

NextBatch == JobStep \/ SyncStep

SpecBatch == InitBatch /\ [][NextBatch]_vars

\* the job and the workflow it awaits are one chain of promises: the JavaScript
\* event loop resumes a continuation whose awaited call has settled, so a step
\* that can be taken is eventually taken
SpecBatchLive == InitBatch /\ [][NextBatch]_vars /\ WF_vars(NextBatch)

\* the registry on its own: no, one or two configured indexes, any i18n setting
\* over sequences of distinct languages, any requested language
Entries == {IndexConfigOf(k, en, fe, "custom", FALSE)
               : k \in KeyPool, en \in BOOLEAN, fe \in BOOLEAN}

RegistrySettings ==
    {<<>>}
    \cup {<<c>> : c \in Entries}
    \cup {cs \in {<<c1, c2>> : c1 \in Entries, c2 \in Entries} : cs[1].indexKey # cs[2].indexKey}

LanguageLists ==
    {<<>>} \cup {<<l>> : l \in LangPool}
    \cup {ls \in {<<l1, l2>> : l1 \in LangPool, l2 \in LangPool} : ls[1] # ls[2]}

RegistryI18n ==
    {NoI18n}
    \cup {I18nOf(st, ls, <<"e">>) : st \in {"separate-index", "field-suffix"}, ls \in LanguageLists}

InitRegistry ==
    /\ config \in {[settings |-> cs, i18n |-> i] : cs \in RegistrySettings, i \in RegistryI18n}
    /\ source = <<>>
    /\ filters = NoFilters
    /\ loader = IdleLoader
    /\ EngineInit({})
    /\ sync = IdleSync
    /\ run = 1
    /\ prev = NoPrev
    /\ job = IdleJob
    /\ \E lang \in {NoLanguage} \cup LangPool, keys \in {None, Some({<<"p">>})} :
          reg = [IdleReg EXCEPT !.pc = "start", !.language = lang, !.indexKeys = keys]
    /\ bulk = IdleBulk

NextRegistry == WorkflowGetIndexes \/ WorkflowFilter

SpecRegistry == InitRegistry /\ [][NextRegistry]_vars

\* the loader on its own: two configured indexes under each i18n setting,
\* against an engine where the indexes exist or not
LoaderConfigs ==
    {[settings |-> <<[IndexConfigOf(<<"p">>, TRUE, TRUE, "custom", FALSE)
                         EXCEPT !.primaryKey = pk],
                     IndexConfigOf(k, en, FALSE, "products", FALSE)>>, i18n |-> i]
        : en \in BOOLEAN, pk \in {<<>>, <<"sku">>}, k \in {<<"q">>, <<"p", "_", "e">>},
          i \in {NoI18n,
                 I18nOf("field-suffix", <<<<"e">>, <<"u">>>>, <<"e">>),
                 I18nOf("separate-index", <<<<"e">>, <<"u">>>>, <<"e">>)}}

InitLoader ==
    /\ config \in LoaderConfigs
    /\ source = <<>>
    /\ filters = NoFilters
    /\ EngineInit({{1}})
    /\ loader = [IdleLoader EXCEPT !.pc = "run"]
    /\ sync = IdleSync
    /\ run = 1
    /\ prev = NoPrev
    /\ job = IdleJob
    /\ reg = IdleReg
    /\ bulk = IdleBulk

NextLoader == LoaderStep

SpecLoader == InitLoader /\ [][NextLoader]_vars

\* every entry point
Init == InitLoader \/ InitSync \/ InitBulk \/ InitBatch

Next ==
    \/ LoaderStep
    \/ SyncStep
    \/ SyncAgain
    \/ JobStep
    \/ WorkflowGetIndexes
    \/ WorkflowFilter
    \/ BulkStep

Spec == Init /\ [][Next]_vars

----------------------------------------------------------------------------
(* Properties *)

RECURSIVE SumFn(_, _)
SumFn(f, S) ==
    IF S = {} THEN 0 ELSE LET x == CHOOSE y \in S : TRUE IN f[x] + SumFn(f, S \ {x})

EngineCalls(calls) == {i \in 1 .. Len(calls) : calls[i].op # "fetch"}

ConfiguredDisabled(indexKey) ==
    HasIndexConfig(config, indexKey) /\ ~IndexConfig(config, indexKey).enabled

\* the number of documents a descriptor's fetch returns in a bulk run
BulkFetchCount == Len(Window(source, bulk.limit, bulk.offset))

\* C1: a bulk sync captures every failure in the failing descriptor's own entry
\* {success: false, error: non-empty message, documents: [], added: 0,
\* deleted: 0}; every other entry is successful with the counts of its own
\* sync; with exactly one failing fetch the totals are N, 1 and N-1.
C1_FailureIsolation ==
    bulk.pc = "done" =>
        LET r == bulk.result
            n == Len(bulk.tasks)
        IN  /\ \A i \in 1 .. n :
                  IF Task(i).failedAt # "none"
                  THEN /\ ~r.results[i].success
                       /\ IsSome(r.results[i].error)
                       /\ Val(r.results[i].error) # ""
                       /\ r.results[i].documents = <<>>
                       /\ r.results[i].added = 0
                       /\ r.results[i].deleted = 0
                  ELSE /\ r.results[i].success
                       /\ Task(i).pc = "settled"
                       /\ getDocumentFetcher(config, Task(i).desc.indexKey) # "none"
                              => r.results[i].added = BulkFetchCount
                       /\ Task(i).filterHonoured => r.results[i].deleted = 0
            /\ (/\ Cardinality({i \in 1 .. n : Task(i).failedAt # "none"}) = 1
                /\ \E i \in 1 .. n : Task(i).failedAt = "fetch")
                   => /\ r.totalProcessed = n
                      /\ r.totalFailed = 1
                      /\ r.totalSuccessful = n - 1

\* C2: within one sync the probe, the upsert and the delete address the same
\* physical index: indexKey when the strategy is not separate-index or no
\* language is set, indexKey_language otherwise.
C2_SamePhysicalKey ==
    \A i \in EngineCalls(sync.calls) :
        sync.calls[i].key =
            IF config.i18n.strategy = "separate-index" /\ sync.input.language # NoLanguage
            THEN sync.input.indexKey \o <<"_">> \o sync.input.language
            ELSE sync.input.indexKey

\* C3: every id passed to deleteDocuments was returned by the probe, and when
\* the engine answered the probe's filter exactly the sync deletes nothing,
\* reports deleted = 0 and every stored document outside the identity set D
\* of the fetch window is still stored.
C3_WindowScopedDelete ==
    sync.pc \in {"transform", "add", "delete", "done"} =>
        /\ sync.documentsToDelete \subseteq sync.existingDocumentIds
        /\ sync.filterHonoured =>
              /\ sync.pc # "delete"
              /\ \A i \in EngineCalls(sync.calls) : sync.calls[i].op # "deleteDocuments"
              /\ \A k \in PhysKeys : (prev.stored[k] \ sync.documentIds) \subseteq stored[k]
              /\ sync.pc = "done" => sync.result.deleted = 0

\* window {1,2}, index holding {2,3}: the probe answers {2}, nothing is
\* deleted and document 3 is still stored
C3_Witness ==
    /\ sync.pc = "done"
    /\ sync.documentIds = {1, 2}
    /\ prev.stored[SearchIndexKey(config, sync.input.indexKey, sync.input.language)] = {2, 3}
    /\ sync.probed /\ ~sync.probeThrew /\ sync.filterHonoured
    /\ sync.existingDocumentIds = {2}
    /\ sync.result.deleted = 0
    /\ 3 \in stored[SearchIndexKey(config, sync.input.indexKey, sync.input.language)]

\* C4: without an explicit limit, from offset 0 and with batchSize B >= 1, the
\* batch job over a stable source of N documents runs floor(N/B)+1 syncs with
\* limit B at offsets 0, B, 2B, ...; every fetch but the last returns B
\* documents, the last fewer; and totalAdded = N.
C4_FullWalk ==
    LET B == job.batchSize
        N == Len(source)
        m == Len(job.windows)
    IN  (/\ job.pc \in {"loop", "returned"}
         /\ job.data.limit = None
         /\ InitialOffset(job.data) = 0
         /\ B >= 1
         /\ getDocumentFetcher(config, job.data.indexKey) # "none")
        => /\ \A k \in 1 .. m :
                 job.windows[k] = [limit |-> Some(B), offset |-> Some((k - 1) * B)]
           /\ \A k \in 1 .. Len(job.fetched) :
                 (k < m \/ job.pc = "loop") => job.fetched[k] = B
           /\ job.pc = "returned" =>
                 /\ m = (N \div B) + 1
                 /\ Len(job.fetched) = m
                 /\ job.fetched[m] < B
                 /\ job.totalAdded = N

\* five documents in batches of two: three iterations of 2, 2 and 1
C4_Witness ==
    /\ job.pc = "returned"
    /\ job.data.limit = None
    /\ Len(source) = 5
    /\ job.batchSize = 2
    /\ job.fetched = <<2, 2, 1>>
    /\ job.totalAdded = 5

\* C5: a disabled index is a no-op: the registry emits no descriptor for it; a
\* single-index sync on it returns {documents: [], added: 0, deleted: 0} with
\* no fetch and no engine call; a bulk sync given a descriptor for it reports
\* success with zero counts, no fetch and no engine call.
C5_DisabledNoOp ==
    /\ reg.pc \in {"filter", "done"} =>
          \A i \in 1 .. Len(reg.indexes) : ~ConfiguredDisabled(reg.indexes[i].indexKey)
    /\ (sync.pc # "idle" /\ ConfiguredDisabled(sync.input.indexKey)) =>
          /\ sync.calls = <<>>
          /\ sync.pc \in {"start", "done"}
          /\ sync.pc = "done" => sync.result = EmptyResult
          /\ job.pc = "idle" => stored = prev.stored
    /\ \A i \in 1 .. Len(bulk.tasks) :
          ConfiguredDisabled(Task(i).desc.indexKey) =>
              /\ Task(i).calls = <<>>
              /\ Task(i).pc \in {"start", "settled"}
              /\ Task(i).pc = "settled" =>
                    /\ Task(i).entry.success
                    /\ Task(i).entry.error = None
                    /\ Task(i).entry.documents = <<>>
                    /\ Task(i).entry.added = 0
                    /\ Task(i).entry.deleted = 0

\* a bulk run given a descriptor of a disabled index next to one that synced
C5_Witness ==
    /\ bulk.pc = "done"
    /\ \E i \in 1 .. Len(bulk.tasks) :
          /\ ConfiguredDisabled(Task(i).desc.indexKey)
          /\ bulk.result.results[i].success
    /\ \E j \in 1 .. Len(bulk.tasks) : bulk.result.results[j].added > 0

\* C6: under separate-index any two distinct descriptors of the registry map
\* to different physical index keys.
C6_DisjointPhysicalKeys ==
    (reg.pc \in {"filter", "done"} /\ config.i18n.strategy = "separate-index") =>
        \A i \in 1 .. Len(reg.indexes), j \in 1 .. Len(reg.indexes) :
            i # j => PhysicalKey(config, reg.indexes[i]) # PhysicalKey(config, reg.indexes[j])

\* the physical indexes a task has a write in flight against
WritesInFlight(t) ==
    IF t.pc = "add" THEN {AddIndexKey(config, t.desc.indexKey, t.desc.language)}
    ELSE IF t.pc = "delete" THEN {DeleteIndexKey(config, t.desc.indexKey, t.desc.language)}
    ELSE {}

\* C7: in a bulk sync over descriptors of the registry no two descriptor syncs
\* have a write (addDocuments or deleteDocuments) in flight against the same
\* physical index.
C7_NoSharedWrite ==
    reg.pc = "done" =>
        \A i \in 1 .. Len(bulk.tasks), j \in 1 .. Len(bulk.tasks) :
            i # j => WritesInFlight(Task(i)) \cap WritesInFlight(Task(j)) = {}

\* C8: the bulk totals are the aggregates of the entries: one entry per
\* descriptor in input order, totalProcessed = number of descriptors =
\* totalSuccessful + totalFailed, the two count the entries by success,
\* totalDocuments sums the fetched documents of the successful descriptors,
\* totalAdded and totalDeleted sum the entries' added and deleted.
C8_TotalsAreAggregates ==
    bulk.pc = "done" =>
        LET r == bulk.result
            I == 1 .. Len(r.results)
            ok == {i \in I : r.results[i].success}
        IN  /\ Len(r.results) = Len(bulk.indexes)
            /\ \A i \in I : /\ r.results[i].indexKey = bulk.indexes[i].indexKey
                            /\ r.results[i].language = bulk.indexes[i].language
            /\ r.totalProcessed = Len(bulk.indexes)
            /\ r.totalProcessed = r.totalSuccessful + r.totalFailed
            /\ r.totalSuccessful = Cardinality(ok)
            /\ r.totalFailed = Cardinality(I \ ok)
            /\ r.totalDocuments = SumFn([i \in I |-> Len(Task(i).documents)], ok)
            /\ r.totalAdded = SumFn([i \in I |-> r.results[i].added], I)
            /\ r.totalDeleted = SumFn([i \in I |-> r.results[i].deleted], I)

\* a settled bulk run with a failed entry and a successful one that added documents
C8_Witness ==
    /\ bulk.pc = "done"
    /\ bulk.result.totalFailed = 1
    /\ bulk.result.totalSuccessful = 2
    /\ bulk.result.totalDocuments >= 2
    /\ bulk.result.totalDeleted >= 1

\* C9: a second run with the same input and the same fetch results, whose probe
\* reflects the first run's writes, reports added = N and deleted = 0, issues no
\* deleteDocuments and leaves the stored documents unchanged.
C9_SecondRunIdempotent ==
    (/\ run = 2
     /\ prev.pc = "done"
     /\ sync.pc = "done"
     /\ sync.filterHonoured
     /\ getDocumentFetcher(config, sync.input.indexKey) # "none")
    => /\ sync.result.added = Len(Window(source, sync.input.limit, sync.input.offset))
       /\ sync.result.added = prev.result.added
       /\ sync.result.deleted = 0
       /\ \A i \in 1 .. Len(sync.calls) : sync.calls[i].op # "deleteDocuments"
       /\ stored = prev.stored

\* the second run probes two documents the first run wrote
C9_Witness ==
    /\ run = 2
    /\ prev.pc = "done"
    /\ sync.pc = "done"
    /\ sync.probed /\ ~sync.probeThrew /\ sync.filterHonoured
    /\ sync.existingDocumentIds = {1, 2}
    /\ sync.result.added = 2
    /\ sync.result.deleted = 0

\* C10: when the caller supplies a limit, whatever its value, the batch job
\* makes exactly one sync call, with that limit and the caller's offset, and
\* never enters the batch loop.
C10_ExplicitLimitBypassesLoop ==
    (/\ job.pc \notin {"idle", "start", "skipped"}
     /\ IsSome(job.data.limit))
    => /\ job.pc # "loop"
       /\ job.windows = <<[limit |-> job.data.limit, offset |-> job.data.offset]>>

\* the configured entries a descriptor is due for, in insertion order
FetcherBearing(cfg) == SelectSeq(cfg.settings, LAMBDA c : c.enabled /\ c.fetcher)

\* the languages each of them is due in
DueLanguages(cfg, language) ==
    IF cfg.i18n.strategy = "separate-index" /\ cfg.i18n.languages # <<>>
    THEN IF language # NoLanguage THEN <<language>> ELSE cfg.i18n.languages
    ELSE <<language>>

\* C11: the registry returns exactly one descriptor per enabled index with a
\* fetcher and per due language (all configured languages or the requested
\* one under separate-index with languages, the caller's language unmodified
\* otherwise), ordered by configuration insertion order, then language order;
\* an empty configuration yields the empty sequence.
C11_RegistryExact ==
    reg.pc \in {"filter", "done"} =>
        LET kept == FetcherBearing(config)
            langs == DueLanguages(config, reg.language)
            L == Len(langs)
        IN  /\ Len(reg.indexes) = Len(kept) * L
            /\ \A a \in 1 .. Len(kept), b \in 1 .. L :
                  reg.indexes[(a - 1) * L + b]
                      = Descriptor(kept[a].indexKey, kept[a].type, langs[b])
            /\ config.settings = <<>> => reg.indexes = <<>>

\* the calls of a sync that throw through the step: everything but the probe
Propagating == {"fetch", "addDocuments", "deleteDocuments"}

\* C12: a throw of the fetch, the transform, the upsert or the delete fails the
\* single-index sync with the thrown value; the batch job then fails at the
\* first failing window: it settles as failed, never as returned, starts no
\* further window, does not run the failed window again, and nothing is
\* fetched or written after the failure. (Windows are told apart by their
\* offsets, which differ whenever batchSize is not 0.)
C12_FirstFailureStops ==
    /\ [](/\ sync.pc = "failed" => /\ sync.error \in Thrown
                                   /\ sync.result = EmptyResult
          /\ job.pc = "failed" => sync.pc = "failed"
          /\ job.pc = "returned" => sync.pc = "done"
          /\ job.data.batchSize # Some(0) =>
                \A a \in 1 .. Len(job.windows), b \in 1 .. Len(job.windows) :
                    a # b => job.windows[a] # job.windows[b])
    /\ [][/\ (sync.pc = "failed" /\ job.pc \in {"single", "loop"})
             => /\ job'.pc = "failed"
                /\ job'.windows = job.windows
                /\ UNCHANGED <<sync, indexes, stored>>
          /\ job.pc # "failed"]_vars

\* the second of three windows fails after the first one was written
C12_Witness ==
    /\ job.pc = "failed"
    /\ Len(source) = 5
    /\ job.batchSize = 2
    /\ Len(job.windows) = 2
    /\ job.totalAdded = 2
    /\ sync.calls[Len(sync.calls)].op \in Propagating

\* the sync has nothing to work on: no fetcher resolves for its index key, or
\* the fetch window is empty
NothingToSync ==
    \/ getDocumentFetcher(config, sync.input.indexKey) = "none"
    \/ Window(source, sync.input.limit, sync.input.offset) = <<>>

\* C13: when no fetcher resolves for the index key or the fetch yields zero
\* documents, the single-index sync returns {documents: [], added: 0,
\* deleted: 0}, issues no probe, no addDocuments and no deleteDocuments, and
\* leaves the stored documents unchanged.
C13_NothingToSyncNoEngineCall ==
    (sync.pc # "idle" /\ NothingToSync) =>
        /\ EngineCalls(sync.calls) = {}
        /\ sync.pc \in {"start", "fetch", "done", "failed"}
        /\ sync.pc = "done" => sync.result = EmptyResult
        /\ stored = prev.stored

\* a configured fetcher was invoked and returned an empty window of a source
\* that is not empty, against an engine that stores documents
C13_Witness ==
    /\ sync.pc = "done"
    /\ getDocumentFetcher(config, sync.input.indexKey) = "custom"
    /\ Len(sync.calls) = 1
    /\ sync.calls[1].op = "fetch"
    /\ Len(source) = 1
    /\ sync.input.offset = Some(1)
    /\ stored[sync.input.indexKey] # {}

\* C14: the built-in products fetcher always queries the catalog with
\* status = published, whatever filters the caller supplies; the caller's
\* other filters are passed along; limit and offset are passed as take and
\* skip.
C14_PublishedOnly ==
    sync.query # NoQuery =>
        /\ sync.query.entity = "product"
        /\ "status" \in DOMAIN sync.query.filters
        /\ sync.query.filters["status"] = "published"
        /\ \A f \in DOMAIN filters \ {"status"} :
              f \in DOMAIN sync.query.filters /\ sync.query.filters[f] = filters[f]
        /\ sync.query.take = sync.input.limit
        /\ sync.query.skip = sync.input.offset

\* C15 as stated: invoked without data or without an indexKey, the batch job
\* aborts at entry signalling failure to its caller, and makes no sync call.
C15_MissingInputFails ==
    (job.pc \notin {"idle", "start"} /\ (~job.data.present \/ job.data.indexKey = <<>>))
    => /\ job.pc = "failed"
       /\ sync = IdleSync

\* C15 amended: invoked without data or without an indexKey, the batch job
\* returns at entry without signalling a failure (it logs a warning and
\* skips), and makes no sync call: no window is started, nothing is fetched
\* and no search-engine call is made.
C15_MissingInputSkips ==
    (job.pc \notin {"idle", "start"} /\ (~job.data.present \/ job.data.indexKey = <<>>))
    => /\ job.pc = "skipped"
       /\ job.windows = <<>>
       /\ sync = IdleSync

\* the job was given data with a limit but no indexKey and has returned
C15_Witness ==
    /\ job.pc = "skipped"
    /\ job.data.present
    /\ job.data.indexKey = <<>>
    /\ job.data.limit = Some(1)
    /\ sync = IdleSync

\* the keys of the search-engine calls in a sequence of calls
EngineKeys(calls) == {calls[i].key : i \in EngineCalls(calls)}

\* C16: under field-suffix the probe, the upsert, the delete and the settings
\* apply of an index all address the physical index named indexKey, whatever
\* the language, and the registry emits exactly one descriptor per enabled
\* index with a fetcher, carrying the requested language, with no expansion
\* over the configured languages.
C16_FieldSuffixSingleIndex ==
    config.i18n.strategy = "field-suffix" =>
        /\ EngineKeys(sync.calls) \subseteq {sync.input.indexKey}
        /\ \A i \in 1 .. Len(bulk.tasks) :
              EngineKeys(Task(i).calls) \subseteq {Task(i).desc.indexKey}
        /\ Len(loader.calls) =
              Cardinality({i \in loader.applied : config.settings[i].enabled})
        /\ \A i \in loader.applied :
              config.settings[i].enabled =>
                  \E j \in 1 .. Len(loader.calls) :
                      loader.calls[j].key = config.settings[i].indexKey
        /\ reg.pc \in {"filter", "done"} =>
              /\ \A k \in KeyPool :
                    Cardinality({a \in 1 .. Len(reg.indexes) : reg.indexes[a].indexKey = k})
                        = IF \E c \in 1 .. Len(config.settings) :
                                 /\ config.settings[c].indexKey = k
                                 /\ config.settings[c].enabled
                                 /\ config.settings[c].fetcher
                          THEN 1 ELSE 0
              /\ \A a \in 1 .. Len(reg.indexes) : reg.indexes[a].language = reg.language

\* a bulk run for language "u" under field-suffix that wrote to index "p" and
\* deleted from it
C16_Witness ==
    /\ config.i18n.strategy = "field-suffix"
    /\ reg.pc = "done"
    /\ reg.language = <<"u">>
    /\ bulk.pc = "done"
    /\ \E i \in 1 .. Len(bulk.tasks) :
          /\ Task(i).desc.language = <<"u">>
          /\ \E a \in 1 .. Len(Task(i).calls), d \in 1 .. Len(Task(i).calls) :
                /\ Task(i).calls[a].op = "addDocuments"
                /\ Task(i).calls[d].op = "deleteDocuments"
                /\ Task(i).calls[a].key = <<"p">>

\* the sync has invoked a fetcher
FetcherInvoked == \E i \in 1 .. Len(sync.calls) : sync.calls[i].op = "fetch"

\* C17: the fetcher resolver gives no fetcher for a disabled or unconfigured
\* index, the configured custom fetcher when there is one (even on a products
\* index), the built-in products fetcher for a products index without custom
\* fetcher, and no fetcher otherwise; fetching with no fetcher yields an empty
\* sequence, not an error.
C17_FetcherResolution ==
    sync.pc \notin {"idle", "start"} =>
        LET k == sync.input.indexKey
            configured == \E i \in 1 .. Len(config.settings) : config.settings[i].indexKey = k
            e == config.settings[CHOOSE i \in 1 .. Len(config.settings) :
                                     config.settings[i].indexKey = k]
        IN  IF ~configured THEN
                ~FetcherInvoked /\ sync.pc = "done" /\ sync.result.documents = <<>>
            ELSE IF ~e.enabled THEN
                ~FetcherInvoked /\ sync.pc = "done" /\ sync.result.documents = <<>>
            ELSE IF e.fetcher THEN
                FetcherInvoked /\ sync.query = NoQuery
            ELSE IF e.type = "products" THEN
                FetcherInvoked /\ sync.query.entity = "product"
            ELSE
                ~FetcherInvoked /\ sync.pc = "done" /\ sync.result.documents = <<>>

\* a products index with a custom fetcher: the custom fetcher fetched the
\* documents and no catalog query was issued
C17_Witness ==
    /\ sync.pc = "done"
    /\ HasIndexConfig(config, sync.input.indexKey)
    /\ IndexConfig(config, sync.input.indexKey).fetcher
    /\ IndexConfig(config, sync.input.indexKey).type = "products"
    /\ FetcherInvoked
    /\ sync.query = NoQuery
    /\ sync.result.added = 2

\* the positions of the registry's descriptors that indexKeys selects
Selected ==
    {a \in 1 .. Len(reg.indexes) :
        IsSome(reg.indexKeys) => reg.indexes[a].indexKey \in Val(reg.indexKeys)}

\* the j-th selected position, in registry order
NthSelected(j) == CHOOSE a \in Selected : Cardinality({b \in Selected : b < a}) = j - 1

\* C18: the bulk workflow processes exactly the registry's descriptors whose
\* indexKey is in indexKeys (every registry descriptor when indexKeys is
\* absent), in registry order; totalProcessed is their number; a key listed in
\* indexKeys that the registry did not produce is never processed.
C18_IndexKeysFilter ==
    reg.pc = "done" =>
        /\ Len(bulk.indexes) = Cardinality(Selected)
        /\ \A j \in 1 .. Len(bulk.indexes) : bulk.indexes[j] = reg.indexes[NthSelected(j)]
        /\ \A i \in 1 .. Len(bulk.tasks) :
              /\ Task(i).desc = bulk.indexes[i]
              /\ \E c \in 1 .. Len(config.settings) :
                    /\ config.settings[c].indexKey = Task(i).desc.indexKey
                    /\ config.settings[c].enabled
                    /\ config.settings[c].fetcher
        /\ bulk.pc = "done" =>
              /\ bulk.result.totalProcessed = Cardinality(Selected)
              /\ Len(bulk.tasks) = Cardinality(Selected)

\* of the four descriptors of two indexes in two languages, the two of the
\* index named in indexKeys were synced
C18_Witness ==
    /\ reg.pc = "done"
    /\ bulk.pc = "done"
    /\ reg.indexKeys = Some({<<"q">>})
    /\ Len(reg.indexes) = 4
    /\ bulk.result.totalProcessed = 2
    /\ bulk.result.totalAdded = 2 * MaxDocs

\* the positions of the calls of one operation in a sequence of calls
CallsOf(calls, op) == {i \in 1 .. Len(calls) : calls[i].op = op}

\* C19: in a sync with a non-empty fetch the deletion set is exactly E \ D;
\* deleteDocuments is called if and only if it is not empty, once, with
\* exactly those identities, against the physical index that was probed; and
\* the reported deleted is the size of the deletion set.
C19_DeletionSet ==
    (sync.pc \in {"transform", "add", "delete", "done"} /\ sync.documents # <<>>) =>
        LET E == sync.existingDocumentIds
            D == sync.documentIds
            dels == CallsOf(sync.calls, "deleteDocuments")
        IN  /\ sync.documentsToDelete = E \ D
            /\ Cardinality(dels) <= 1
            /\ \A i \in dels :
                  /\ sync.calls[i].ids = E \ D
                  /\ E \ D # {}
                  /\ \E j \in CallsOf(sync.calls, "search") :
                        j < i /\ sync.calls[j].key = sync.calls[i].key
            /\ sync.pc \in {"delete", "done"} => (dels # {} <=> E \ D # {})
            /\ sync.pc = "done" => sync.result.deleted = Cardinality(E \ D)

\* the probe answered {1,2,3} for the fetched identities {1}: 2 and 3 were
\* deleted from the probed index
C19_Witness ==
    /\ sync.pc = "done"
    /\ sync.documentIds = {1}
    /\ sync.existingDocumentIds = {1, 2, 3}
    /\ sync.result.deleted = 2
    /\ \E i \in CallsOf(sync.calls, "deleteDocuments") :
          /\ sync.calls[i].ids = {2, 3}
          /\ stored[sync.calls[i].key] = {1}

\* C20: in a sync with a non-empty fetch every fetched document is passed to
\* addDocuments exactly once (one call carrying all of them), whether or not
\* it was stored before and whether or not it carries an identity, and the
\* reported added is the number of fetched documents.
C20_UpsertAll ==
    /\ (sync.pc \in {"add", "delete", "done"} /\ sync.documents # <<>>) =>
          LET fetched == Window(source, sync.input.limit, sync.input.offset)
              adds == CallsOf(sync.calls, "addDocuments")
          IN  /\ sync.documents = fetched
              /\ sync.upserted = fetched
              /\ Cardinality(adds) = 1
              /\ \A i \in adds : sync.calls[i].n = Len(fetched)
              /\ sync.pc = "done" => /\ sync.result.added = Len(fetched)
                                     /\ sync.result.documents = fetched
    /\ \A i \in 1 .. Len(bulk.tasks) :
          (Task(i).pc \in {"add", "delete"}
             \/ (Task(i).pc = "settled" /\ Task(i).failedAt = "none"
                   /\ Task(i).documents # <<>>)) =>
              LET adds == CallsOf(Task(i).calls, "addDocuments")
              IN  /\ Task(i).documents = Window(source, bulk.limit, bulk.offset)
                  /\ Cardinality(adds) = 1
                  /\ \A a \in adds : Task(i).calls[a].n = BulkFetchCount
                  /\ Task(i).pc = "settled" => Task(i).entry.added = BulkFetchCount

\* two fetched documents without identity, next to stored documents: no probe
\* was made, both were passed to addDocuments and added is 2
C20_Witness ==
    /\ sync.pc = "done"
    /\ Len(sync.documents) = 2
    /\ sync.documentIds = {}
    /\ ~sync.probed
    /\ sync.upserted = sync.documents
    /\ sync.result.added = 2
    /\ stored[sync.input.indexKey] = {1, 2}

\* the identity of a document as specified: id when present, _id otherwise
PresentIdentity(doc) == IF doc.id # Absent THEN doc.id ELSE doc._id

\* C21: the identity of a fetched document is its id when id is present
\* (whatever its value) and its _id otherwise; D holds exactly the identities
\* of the fetched documents that have one; a document without id and _id is
\* left out of D and still passed to the upsert.
C21_IdentityRule ==
    (sync.pc \in {"probe", "transform", "add", "delete", "done"} /\ sync.documents # <<>>) =>
        /\ sync.documentIds =
              {PresentIdentity(sync.documents[i]) : i \in 1 .. Len(sync.documents)} \ {Absent}
        /\ sync.pc \in {"add", "delete", "done"} => sync.upserted = sync.documents

\* C22: the probe is issued only when D is not empty, at most once per sync,
\* against the physical index of the resolved language, and the request that
\* reaches the engine carries the filter restricting identities to D and
\* attributesToRetrieve = [id]; when D is empty no probe is issued and E is
\* empty.
C22_BoundedProbe ==
    (sync.pc \in {"probe", "transform", "add", "delete", "done"} /\ sync.documents # <<>>) =>
        LET searches == CallsOf(sync.calls, "search")
            D == sync.documentIds
        IN  /\ Cardinality(searches) <= 1
            /\ searches # {} <=> D # {}
            /\ D = {} => sync.existingDocumentIds = {} /\ sync.probeRequest = NoRequest
            /\ \A i \in searches :
                  /\ sync.calls[i].ids = D
                  /\ sync.calls[i].key =
                        IF config.i18n.strategy = "separate-index"
                               /\ sync.input.language # NoLanguage
                        THEN sync.input.indexKey \o <<"_">> \o sync.input.language
                        ELSE sync.input.indexKey
                  /\ "filter" \in DOMAIN sync.probeRequest
                  /\ sync.probeRequest["filter"] = D
                  /\ "attributesToRetrieve" \in DOMAIN sync.probeRequest
                  /\ sync.probeRequest["attributesToRetrieve"] = <<"id">>

\* C23: when the probe fails because the physical index does not exist, the
\* sync does not fail on that account: E is empty, no delete is issued, every
\* fetched document is passed to the upsert, which creates the index, and the
\* sync reports added = N and deleted = 0. The same holds for a descriptor of
\* the bulk step.
C23_MissingIndexProbe ==
    /\ (sync.probed /\ sync.indexMissing) =>
          /\ sync.pc \in {"transform", "add", "done", "failed"}
          /\ sync.existingDocumentIds = {}
          /\ sync.documentsToDelete = {}
          /\ CallsOf(sync.calls, "deleteDocuments") = {}
          /\ sync.pc = "failed" => sync.error # NoError
          /\ sync.pc = "done" =>
                /\ sync.upserted = sync.documents
                /\ AddIndexKey(config, sync.input.indexKey, sync.input.language) \in indexes
                /\ sync.result.added = Len(sync.documents)
                /\ sync.result.deleted = 0
    /\ \A i \in 1 .. Len(bulk.tasks) :
          (Task(i).probed /\ Task(i).indexMissing) =>
              /\ Task(i).existingDocumentIds = {}
              /\ Task(i).documentsToDelete = {}
              /\ CallsOf(Task(i).calls, "deleteDocuments") = {}
              /\ Task(i).failedAt \in {"none", "transform", "add"}
              /\ (Task(i).pc = "settled" /\ Task(i).failedAt = "none") =>
                    /\ Task(i).entry.success
                    /\ Task(i).upserted = Len(Task(i).documents)
                    /\ AddIndexKey(config, Task(i).desc.indexKey, Task(i).desc.language)
                          \in indexes
                    /\ Task(i).entry.added = Len(Task(i).documents)
                    /\ Task(i).entry.deleted = 0

\* a sync of two documents whose index did not exist has returned: the probe
\* failed, the index now exists and holds both documents
C23_Witness ==
    /\ sync.pc = "done"
    /\ sync.probed /\ sync.indexMissing
    /\ Len(sync.documents) = 2
    /\ sync.result.added = 2 /\ sync.result.deleted = 0
    /\ AddIndexKey(config, sync.input.indexKey, sync.input.language) \in indexes
    /\ stored[AddIndexKey(config, sync.input.indexKey, sync.input.language)] = {1, 2}

\* C24: when the transformer fails for any one document of the batch, the
\* client's addDocuments is not called, no delete is issued and the failure
\* reaches the caller: the sync fails with the thrown value, the bulk step
\* records the failure in the descriptor's entry.
C24_TransformAllOrNothing ==
    /\ sync.transformFailed # {} =>
          /\ sync.pc = "failed"
          /\ sync.error # NoError
          /\ CallsOf(sync.calls, "addDocuments") = {}
          /\ CallsOf(sync.calls, "deleteDocuments") = {}
          /\ sync.upserted = <<>>
    /\ \A i \in 1 .. Len(bulk.tasks) :
          Task(i).transformFailed # {} =>
              /\ Task(i).pc = "settled"
              /\ Task(i).failedAt = "transform"
              /\ ~Task(i).entry.success
              /\ Task(i).entry.error # None
              /\ CallsOf(Task(i).calls, "addDocuments") = {}
              /\ CallsOf(Task(i).calls, "deleteDocuments") = {}
              /\ Task(i).upserted = 0 /\ Task(i).removed = 0

\* the transformer threw for the second of two fetched documents only, after a
\* probe that found stored documents to delete: the sync has failed
C24_Witness ==
    /\ sync.pc = "failed"
    /\ Len(sync.documents) = 2
    /\ sync.transformFailed = {2}
    /\ sync.probed /\ sync.documentsToDelete # {}
    /\ CallsOf(sync.calls, "addDocuments") = {}

\* the place of an operation in the order of one descriptor's sync
Rank(op) ==
    CASE op = "fetch" -> 1
      [] op = "search" -> 2
      [] op = "addDocuments" -> 3
      [] OTHER -> 4

\* the calls were issued in the order fetch, probe, upsert, delete, each at
\* most once
Sequential(calls) ==
    \A i, j \in 1 .. Len(calls) : i < j => Rank(calls[i].op) < Rank(calls[j].op)

\* C25: within one descriptor's sync the fetch, the probe, the upsert and the
\* delete are issued in that order, each after the previous one has settled,
\* and the delete is never issued before the upsert has succeeded; the bulk
\* step computes its totals only after every descriptor's sync has settled.
C25_StepOrder ==
    /\ Sequential(sync.calls)
    /\ CallsOf(sync.calls, "search") # {} => CallsOf(sync.calls, "fetch") # {}
    /\ CallsOf(sync.calls, "addDocuments") # {} =>
          /\ CallsOf(sync.calls, "fetch") # {}
          /\ CallsOf(sync.calls, "search") # {} => sync.probed
    /\ CallsOf(sync.calls, "deleteDocuments") # {} => sync.addSettled
    /\ sync.addSettled => CallsOf(sync.calls, "addDocuments") # {}
    /\ \A i \in 1 .. Len(bulk.tasks) :
          /\ Sequential(Task(i).calls)
          /\ CallsOf(Task(i).calls, "search") # {} => CallsOf(Task(i).calls, "fetch") # {}
          /\ CallsOf(Task(i).calls, "addDocuments") # {} =>
                /\ CallsOf(Task(i).calls, "fetch") # {}
                /\ CallsOf(Task(i).calls, "search") # {} => Task(i).probed
          /\ CallsOf(Task(i).calls, "deleteDocuments") # {} => Task(i).addSettled
          /\ Task(i).addSettled => CallsOf(Task(i).calls, "addDocuments") # {}
    /\ bulk.pc = "done" => \A i \in 1 .. Len(bulk.tasks) : Task(i).pc = "settled"
    /\ bulk.pc # "done" => bulk.result = IdleBulk.result

\* the bulk step has returned its totals for two descriptors: the sync of one
\* went through fetch, probe, upsert and delete, the sync of the other failed
C25_Witness ==
    /\ bulk.pc = "done"
    /\ Len(bulk.tasks) = 2
    /\ \E i, j \in 1 .. 2 :
          /\ Len(Task(i).calls) = 4
          /\ Task(i).entry.success
          /\ ~Task(j).entry.success
    /\ bulk.result.totalProcessed = 2

\* the job runs its loop: it was given an index key and no limit the code
\* takes as given
InLoop ==
    /\ job.pc \in {"loop", "returned", "failed"}
    /\ job.data.present /\ job.data.indexKey # <<>>
    /\ ~(IsSome(job.data.limit) /\ Val(job.data.limit) # 0)

\* C26: the batch job runs one sync at a time; its k-th iteration (k = 0, 1,
\* ...) uses limit = batchSize (default 100) and offset = initialOffset +
\* k * batchSize; consecutive windows do not overlap, none is skipped and none
\* is synced twice; the running totals are the sums of added and deleted over
\* the iterations performed.
C26_BatchDriver ==
    InLoop =>
        LET B == IF IsSome(job.data.batchSize) THEN Val(job.data.batchSize) ELSE 100
            O == IF IsSome(job.data.offset) THEN Val(job.data.offset) ELSE 0
            m == Len(job.windows)
        IN  /\ Len(job.reported) \in {m - 1, m}
            /\ job.pc = "loop" =>
                  /\ sync.input.limit = job.windows[m].limit
                  /\ sync.input.offset = job.windows[m].offset
            /\ \A k \in 1 .. m :
                  job.windows[k] = [limit |-> Some(B), offset |-> Some(O + (k - 1) * B)]
            /\ \A j, k \in 1 .. m :
                  j < k => /\ job.windows[j] # job.windows[k]
                           /\ Val(job.windows[j].offset) + B <= Val(job.windows[k].offset)
            /\ job.totalAdded =
                  Sum([k \in 1 .. Len(job.reported) |-> job.reported[k].added])
            /\ job.totalDeleted =
                  Sum([k \in 1 .. Len(job.reported) |-> job.reported[k].deleted])

\* C30: the batch job ends for every finite, stable source and every batchSize
\* the caller can give, zero included: eventually it has returned (or skipped,
\* or failed with the failure of a sync).
C30_LoopTerminates == <>(job.pc \in {"returned", "failed", "skipped"})

\* s is an initial part of t
IsPrefix(s, t) == Len(s) <= Len(t) /\ \A k \in 1 .. Len(s) : s[k] = t[k]

\* the calls syncDocumentsStep issues for an input when its fetch returns
\* `documents` and its probe finds E
SingleSyncCalls(input, documents, E) ==
    LET D == DocumentIds(documents)
        toDelete == DocumentsToDelete(E, D)
    IN  IF IsDisabledOrAbsent(config, input.indexKey)
               \/ getDocumentFetcher(config, input.indexKey) = "none"
        THEN <<>>
        ELSE <<Call("fetch", input.indexKey, {}, 0)>>
             \o (IF NothingFetched(documents) THEN <<>>
                 ELSE (IF D # {}
                       THEN <<Call("search",
                                   SearchIndexKey(config, input.indexKey, input.language),
                                   ProbeFilter(D), 0)>>
                       ELSE <<>>)
                      \o <<Call("addDocuments",
                                AddIndexKey(config, input.indexKey, input.language),
                                {}, Len(documents))>>
                      \o (IF toDelete # {}
                          THEN <<Call("deleteDocuments",
                                      DeleteIndexKey(config, input.indexKey, input.language),
                                      toDelete, 0)>>
                          ELSE <<>>))

\* C27: the bulk step processes a descriptor as the single-index sync would
\* for the same descriptor, window, configuration and engine: the same fetch,
\* probe, upsert and delete calls with the same arguments, and the same
\* documents, added and deleted.
C27_BulkIsSingleSync ==
    \A i \in 1 .. Len(bulk.tasks) :
        LET t == Task(i)
            input == SyncInput(t.desc.indexKey, bulk.limit, bulk.offset, t.desc.language)
            expected == SingleSyncCalls(input, t.documents, t.existingDocumentIds)
        IN  /\ IsPrefix(t.calls, expected)
            /\ t.addArgs # NoArguments => t.addArgs = SyncAddArguments(input, t.documents)
            /\ (t.pc = "settled" /\ t.entry.success) =>
                  /\ t.calls = expected
                  /\ t.entry.documents = t.documents
                  /\ t.entry.added = Len(t.documents)
                  /\ t.entry.deleted =
                        Cardinality(DocumentsToDelete(t.existingDocumentIds,
                                                      DocumentIds(t.documents)))

\* C28: the transformed batch is the chosen transformer applied to each
\* document on its own, in input order: the configured custom transformer
\* (given the built-in product transformer as default when the type is
\* products, no default otherwise), else the built-in product transformer for
\* products, else the documents unchanged; an empty input gives an empty output
\* and no invocation.
C28_TransformerChoice ==
    LET check(indexKey, documents, transformed) ==
            LET configured == HasIndexConfig(config, indexKey)
                custom == configured /\ IndexConfig(config, indexKey).transformer
                products == configured /\ IndexConfig(config, indexKey).type = "products"
                n == Len(documents)
            IN  /\ custom =>
                      /\ Len(transformed.invoked) = n /\ Len(transformed.output) = n
                      /\ \A k \in 1 .. n :
                            /\ transformed.invoked[k].by = "custom"
                            /\ transformed.invoked[k].doc = documents[k]
                            /\ transformed.invoked[k].default =
                                  IF products THEN "transformProduct" ELSE "none"
                            /\ transformed.output[k] = [by |-> "custom", of |-> documents[k]]
                /\ (~custom /\ products) =>
                      /\ Len(transformed.invoked) = n /\ Len(transformed.output) = n
                      /\ \A k \in 1 .. n :
                            /\ transformed.invoked[k].by = "transformProduct"
                            /\ transformed.invoked[k].doc = documents[k]
                            /\ transformed.output[k] =
                                  [by |-> "transformProduct", of |-> documents[k]]
                /\ (~custom /\ ~products) =>
                      /\ transformed.invoked = <<>>
                      /\ transformed.output = documents
    IN  /\ sync.pc \in {"add", "delete", "done"} /\ sync.documents # <<>> =>
              check(sync.input.indexKey, sync.documents, sync.transformed)
        /\ \A i \in 1 .. Len(bulk.tasks) :
              Task(i).addSettled =>
                  check(Task(i).desc.indexKey, Task(i).documents, Task(i).transformed)
        /\ \A k \in KeyPool :
              getTransformedDocuments(config, k, <<>>, NoLanguage, NoContainer)
                  = [invoked |-> <<>>, output |-> <<>>]

\* two documents were synced to a products index with a custom transformer: it
\* was invoked on each in turn, with the built-in product transformer as default
C28_Witness ==
    /\ sync.pc = "done"
    /\ Len(sync.documents) = 2
    /\ IndexConfig(config, sync.input.indexKey).transformer
    /\ IndexConfig(config, sync.input.indexKey).type = "products"
    /\ Len(sync.transformed.invoked) = 2
    /\ sync.transformed.invoked[1].doc = sync.documents[1]
    /\ sync.transformed.invoked[2].default = "transformProduct"

\* the physical indexes of a configured index: one per configured language
\* under separate-index, the index itself otherwise
PhysicalIndexes(indexKey) ==
    IF config.i18n.strategy = "separate-index"
    THEN {indexKey \o <<"_">> \o config.i18n.languages[j]
              : j \in 1 .. Len(config.i18n.languages)}
    ELSE {indexKey}

\* C29: when the settings of an enabled index are applied and a physical index
\* of it does not exist, the not-found outcome of the existence probe is not
\* surfaced: the physical index is created with the configured primaryKey
\* ("id" when none is configured) before updateSettings is issued on it, and
\* this for every physical index of the key; for a disabled index neither
\* createIndex nor updateSettings is issued.
C29_SettingsCreateMissingIndex ==
    \A i \in loader.applied :
        LET c == config.settings[i]
            on(op, k) == {a \in 1 .. Len(loader.log) :
                             /\ loader.log[a].op = op
                             /\ loader.log[a].key = k
                             /\ loader.log[a].for = c.indexKey}
        IN  /\ c.enabled =>
                  \A k \in PhysicalIndexes(c.indexKey) :
                      /\ on("updateSettings", k) # {}
                      /\ (k \in loader.absent
                            /\ \A a \in on("getIndex", k) : loader.log[a].outcome # "error") =>
                             \E a \in on("createIndex", k) :
                                 /\ loader.log[a].primaryKey =
                                       IF c.primaryKey = <<>> THEN "id" ELSE c.primaryKey[1]
                                 /\ \A u \in on("updateSettings", k) : a < u
            /\ ~c.enabled =>
                  \A a \in 1 .. Len(loader.log) : loader.log[a].for # c.indexKey

\* C31: in the result of a bulk sync the counts of an entry agree with what
\* the descriptor's sync applied to the engine: an entry with success false,
\* added 0 and deleted 0 means that nothing was upserted and nothing deleted,
\* also when the delete throws after the upsert has succeeded; an entry with
\* success true and added n means that exactly n documents were upserted.
C31_CountsMatchEffects ==
    \A i \in 1 .. Len(bulk.tasks) :
        Task(i).pc = "settled" =>
            /\ (~Task(i).entry.success /\ Task(i).entry.added = 0
                    /\ Task(i).entry.deleted = 0) =>
                  /\ Task(i).upserted = 0
                  /\ Task(i).removed = 0
            /\ Task(i).entry.success => Task(i).upserted = Task(i).entry.added

\* C32: a failure of the probe, whatever its cause, does not fail the sync: E
\* is taken as empty, addDocuments is still called, no delete is issued and
\* deleted = 0 is reported; in a bulk sync the entry of the descriptor has
\* success true.
C32_ProbeFailureSwallowed ==
    /\ sync.probeThrew =>
          /\ sync.pc \in {"transform", "add", "done", "failed"}
          /\ sync.pc \in {"add", "done", "failed"} => sync.addArgs # NoArguments
          /\ sync.existingDocumentIds = {}
          /\ CallsOf(sync.calls, "deleteDocuments") = {}
          /\ sync.pc = "done" =>
                /\ sync.addSettled
                /\ sync.result.documents = sync.documents
                /\ sync.result.deleted = 0
    /\ \A i \in 1 .. Len(bulk.tasks) :
          Task(i).probeThrew =>
              /\ Task(i).pc \in {"transform", "add", "settled"}
              /\ Task(i).pc \in {"add", "settled"} => Task(i).addArgs # NoArguments
              /\ Task(i).existingDocumentIds = {}
              /\ CallsOf(Task(i).calls, "deleteDocuments") = {}
              /\ (Task(i).pc = "settled" /\ Task(i).addSettled) =>
                    /\ Task(i).entry.success
                    /\ Task(i).entry.documents = Task(i).documents
                    /\ Task(i).entry.deleted = 0

\* the probe of an existing index that holds a stale document threw for
\* another reason than a missing index: the sync has returned, both fetched
\* documents are reported and the stale document is still stored
C32_Witness ==
    /\ sync.pc = "done"
    /\ sync.probeThrew /\ ~sync.indexMissing
    /\ Len(sync.documents) = 2
    /\ sync.result.added = 2 /\ sync.result.deleted = 0
    /\ 3 \in stored[SearchIndexKey(config, sync.input.indexKey, sync.input.language)]

====
